---- MODULE Spec2Model ----
(***************************************************************************)
(* Ingestion job / vector outbox worker of chatbot-studio-backend.         *)
(*                                                                         *)
(* The durable store is modelled by the variables jobs, sources, chunks    *)
(* and outbox; the vector index by vectors.  Every single prisma call is   *)
(* one atomic step of the worker that issues it, and every                 *)
(* prisma.$transaction block is one atomic step (the store's transaction   *)
(* is taken to be serializable).  Each worker process runs tick(); the     *)
(* position of a worker inside its tick is pc[w].                          *)
(*                                                                         *)
(* Documents are abstract: a content token stands for a text without any   *)
(* whitespace of the given canonical length, and sha256 is taken to be     *)
(* injective, so a hash is modelled by the tuple of its inputs.            *)
(***************************************************************************)
EXTENDS Integers, Sequences, FiniteSets, TLC

\* ---------------------------------------------------------------- bounds
MaxSources == 2
INGESTION_MAX_VECTOR_ATTEMPTS == 2
OUTBOX_RUNNING_TTL_MS == 1000

\* ------------------------------------------------------ program constants
CHUNK_SIZE == 1200
CHUNK_OVERLAP == 200
BackoffCapMs == 60000
BackoffBaseMs == 1000
OutboxBatchTake == 10
RunningJobsTake == 20

Workers == {1, 2}
NoJob == 0
NoSource == 0
NoPage == -1

Min(a, b) == IF a <= b THEN a ELSE b
Max(a, b) == IF a >= b THEN a ELSE b

RECURSIVE Pow2(_)
Pow2(n) == IF n <= 0 THEN 1 ELSE 2 * Pow2(n - 1)

\* ingestion-worker.ts:17
backoffMs(attempt) == Min(BackoffCapMs, BackoffBaseMs * Pow2(Max(0, attempt - 1)))

\* ------------------------------------------------------------- documents
\* A content token and the length of its canonical text.  "E" is a text
\* that is blank after canonicalization.
Contents == {"A", "B", "C", "E"}
canonicalLength(content) ==
  CASE content = "A" -> 1500
    [] content = "B" -> 300
    [] content = "C" -> 400
    [] OTHER -> 0

\* chunking.ts:7-60 for a canonical text of length len without whitespace:
\* no boundary is found in any window and nothing is trimmed.
RECURSIVE chunkWalk(_, _, _, _)
chunkWalk(len, chunkSize, chunkOverlap, start) ==
  IF start >= len THEN <<>>
  ELSE LET hardEnd == Min(start + chunkSize, len)
           end == hardEnd
           chunk == [startOffset |-> start, endOffset |-> end]
           nextStart == Max(0, end - chunkOverlap)
       IN  IF end >= len THEN <<chunk>>
           ELSE <<chunk>> \o chunkWalk(len, chunkSize, chunkOverlap,
                                       IF nextStart > start THEN nextStart ELSE start + 1)

\* The sequence of anchored chunks, or <<>> where the code throws
\* ("canonicalText empty").
chunkTextWithOffsets(content) ==
  IF canonicalLength(content) = 0 THEN <<>>
  ELSE chunkWalk(canonicalLength(content), CHUNK_SIZE, CHUNK_OVERLAP, 0)

\* A revision is the hashed payload: the canonical text, or the pdf pages.
NoRevision == [pdf |-> FALSE, sha256 |-> <<>>]

\* chunk-id.ts:4
computeSourceRevision(content) ==
  [pdf |-> FALSE, sha256 |-> <<[pageNo |-> NoPage, canonicalText |-> content]>>]

\* pages.slice().sort((a, b) => a.pageNo - b.pageNo)
RECURSIVE sortByPageNo(_)
sortByPageNo(pages) ==
  IF pages = <<>> THEN <<>>
  ELSE LET i == CHOOSE k \in 1..Len(pages) :
                  /\ \A m \in 1..Len(pages) : pages[k].pageNo <= pages[m].pageNo
                  /\ \A m \in 1..(k - 1) : pages[m].pageNo # pages[k].pageNo
           rest == [m \in 1..(Len(pages) - 1) |-> IF m < i THEN pages[m] ELSE pages[m + 1]]
       IN  <<pages[i]>> \o sortByPageNo(rest)

\* chunk-id.ts:6-13
computePdfSourceRevision(pages) == [pdf |-> TRUE, sha256 |-> sortByPageNo(pages)]

\* chunk-id.ts:15-32
computeChunkId(sourceId, sourceRevision, pageNo, chunk) ==
  [source_id |-> sourceId, source_revision |-> sourceRevision, page_no |-> pageNo,
   start_offset |-> chunk.startOffset, end_offset |-> chunk.endOffset]

SeqToSet(s) == {s[i] : i \in 1..Len(s)}

\* anchoredChunks.map((chunk) => ({ chunkId: computeChunkId(...), ... }))
chunkIdsOf(sourceId, sourceRevision, pageNo, content) ==
  LET cs == chunkTextWithOffsets(content)
  IN  [i \in 1..Len(cs) |-> computeChunkId(sourceId, sourceRevision, pageNo, cs[i])]

\* canonicalPages.flatMap((p) => chunkTextWithOffsets(p.canonicalText).map(...))
RECURSIVE pdfChunkIdsOf(_, _, _)
pdfChunkIdsOf(sourceId, sourceRevision, pages) ==
  IF pages = <<>> THEN <<>>
  ELSE chunkIdsOf(sourceId, sourceRevision, Head(pages).pageNo, Head(pages).canonicalText)
         \o pdfChunkIdsOf(sourceId, sourceRevision, Tail(pages))

\* ------------------------------------------------------------ the state
VARIABLES
  now,        \* Date.now(), in ms
  jobs,       \* IngestionJob rows, in createdAt order; the index is the id
  sources,    \* KnowledgeSource rows ever created; the index is the id
  chunks,     \* KnowledgeChunk rows: chunkId -> row
  outbox,     \* VectorOutbox rows, in createdAt order; the index is the id
  vectors,    \* ids held by the vector index (namespace of the chatbot)
  faults,     \* embedding / vector store calls that have failed so far
  pc,         \* position of each worker inside tick()
  job,        \* the job row a worker read in processNextPendingJob
  items,      \* the outbox rows a worker read in processOutboxBatch, still to do
  running,    \* the RUNNING jobs a worker read in finalizeJobsIfPossible, still to do
  scrape,     \* runScrapeJob's locals: dataset items to do, stagedChunks, handledPdfUrls
  claimers,   \* history: <<job, n>> for the n-th claim of the job that updated one row
  stagers,    \* history: <<job, n>> for the n-th staging run of the job
  lostClaims, \* history: the jobs some claim of which updated no row
  stagingFailed, \* history: the jobs whose staging threw
  overlaps,   \* history: <<j1, j2>> when j1 was staged while another worker held
              \* the claimed, not yet staged job j2 of the same source
  crashes,    \* history: the number of worker processes killed so far
  memory,     \* MemoryVectorStore.store: vectorId -> stored vector
  pinecone,   \* the Pinecone index: <<namespace, id>> -> stored vector
  call,       \* the last call of the VectorStore interface and what it returned
  chat,       \* one call of ChatService.handleMessage: its position and locals
  applied,    \* a function of the ingestion library, applied to an input
  inFlight,   \* IngestionWorker.inFlight of the one worker process of SpecTimer
  ticking,    \* the calls of tick() that are past the guard and not yet through finally
  skipped     \* history: the calls of tick() that returned at the guard

vars == <<now, jobs, sources, chunks, outbox, vectors, faults, pc, job, items,
          running, scrape, claimers, stagers, lostClaims, stagingFailed, overlaps,
          crashes, memory, pinecone, call, chat, applied, inFlight, ticking, skipped>>
dbVars == <<jobs, sources, chunks, outbox>>
histVars == <<claimers, stagers, lostClaims, stagingFailed, overlaps, crashes>>
localVars == <<job, items, running, scrape>>
\* The state of the services beside the ingestion worker.
serviceVars == <<memory, pinecone, call, chat, applied>>
\* The state of tick() itself: the flag and the calls it has let in or turned away.
timerVars == <<inFlight, ticking, skipped>>

\* A history of <<job, n>> entries with one more entry for job j.
Recorded(history, j) ==
  history \cup {<<j, Cardinality({h \in history : h[1] = j}) + 1>>}

TerminalJobStatus == {"SUCCEEDED", "FAILED", "PARTIAL_FAILED"}

NoPayload == [content |-> "NONE", uri |-> "", knowledgeSourceId |-> NoSource]
NoJobRead == [id |-> NoJob, kind |-> "NONE", knowledgeSourceId |-> NoSource,
              payload |-> NoPayload, startedAt |-> -1, nextStatus |-> "NONE", error |-> ""]
NoCall == [op |-> "none", chatbotId |-> "", memoryMatches |-> {}, pineconeMatches |-> {}]
NoScrape == [todo |-> <<>>, stagedChunks |-> 0, handledPdfUrls |-> {}, sourceId |-> NoSource]

\* process.env as the chat service reads it, before any request was made
NoEnv == [VECTOR_DB_PROVIDER |-> "", RAG_MIN_RELEVANCE |-> 0, RAG_MIN_HYDRATED_CHUNKS |-> 0,
          RAG_MIN_SUPPORTED_CLAIMS |-> 0, RAG_MAX_CONTEXT_CHARS |-> 0,
          RAG_ENABLE_QUERY_REWRITE |-> FALSE]
NoIndex == [total |-> 0, live |-> <<>>]
NoAnswer == [throws |-> FALSE, json |-> FALSE, schema |-> FALSE, claims |-> <<>>,
             unknown |-> FALSE, reason |-> ""]
NoResponse == [claims |-> <<>>, unknown |-> FALSE, reason |-> "",
               context_truncated |-> FALSE, sources |-> {}]
NoApplication == [fn |-> "none"]
NoChat == [pc |-> "idle", file |-> "", env |-> NoEnv, index |-> NoIndex,
           query |-> "", topK |-> 0, searches |-> 0, retrieval |-> "",
           vectorMatches |-> <<>>, reranked |-> FALSE, topContexts |-> <<>>,
           contextTruncated |-> FALSE, allowedChunkIds |-> <<>>,
           rewriteCalls |-> 0, rerankCalls |-> 0, offTopicCalls |-> 0, answerCalls |-> 0,
           raw |-> NoAnswer, messages |-> <<>>, result |-> NoResponse]

\* ------------------------------------------------------- scraper results
\* DatasetItem records as runScrapeJob reads them.
DatasetPage(uri, text) ==
  [type |-> "page", uri |-> uri, main_text |-> text, pages |-> <<>>,
   perplexity_content |-> FALSE]
DatasetPdf(uri, pages, perplexity) ==
  [type |-> "pdf", uri |-> uri, main_text |-> "", pages |-> pages,
   perplexity_content |-> perplexity]

Datasets ==
  { <<DatasetPage("u1", "A")>>,
    <<DatasetPage("u1", "B"), DatasetPdf("p1", <<>>, TRUE)>>,
    <<DatasetPage("u1", "E")>>,
    <<DatasetPage("u1", "B"), DatasetPage("u1", "B")>>,
    <<DatasetPage("u1", "B"), DatasetPage("u1", "C"), DatasetPage("u1", "B")>>,
    <<DatasetPdf("p1", <<[pageNo |-> 1, text |-> "B"]>>, FALSE)>>,
    <<DatasetPdf("p2", <<[pageNo |-> NoPage, text |-> "B"]>>, FALSE)>>,
    <<DatasetPage("", "B")>> }

TextKeys == {"t1"}
\* `text:${sha256Hex([chatbotId, stableKey].join("\n"))}`
TextUri(key) == "text:" \o key

\* ------------------------------------------------------ store operations
RECURSIVE SetToSeq(_)
SetToSeq(S) ==
  IF S = {} THEN <<>>
  ELSE LET x == CHOOSE y \in S : TRUE IN <<x>> \o SetToSeq(S \ {x})

\* orderBy: { createdAt: "asc" } of a set of row ids
RECURSIVE Ascending(_)
Ascending(S) ==
  IF S = {} THEN <<>>
  ELSE LET first == CHOOSE x \in S : \A y \in S : x <= y
       IN  <<first>> \o Ascending(S \ {first})

Take(s, n) == SubSeq(s, 1, Min(n, Len(s)))

\* where: { knowledgeSourceId, deletedAt: null }
activeChunks(sourceId) ==
  {c \in DOMAIN chunks : c.source_id = sourceId /\ ~chunks[c].deletedAt}

\* knowledgeSource.findFirst({ where: { chatbotId, uri } })
findSourceByUri(uri) ==
  LET hits == {i \in 1..Len(sources) : sources[i].exists /\ sources[i].uri = uri}
  IN  IF hits = {} THEN NoSource ELSE CHOOSE i \in hits : \A k \in hits : i <= k

sourceExists(sourceId) ==
  sourceId \in 1..Len(sources) /\ sources[sourceId].exists

OutboxRow(jobId, operation, chunkId) ==
  [ingestionJobId |-> jobId, operation |-> operation, chunkId |-> chunkId,
   status |-> "PENDING", attemptCount |-> 0, nextAttemptAt |-> now, updatedAt |-> now]

hasOutboxKey(ob, jobId, operation, chunkId) ==
  \E i \in 1..Len(ob) : /\ ob[i].ingestionJobId = jobId
                        /\ ob[i].operation = operation
                        /\ ob[i].chunkId = chunkId

\* createMany on a table that lacks the unique key: nothing is a duplicate.
outboxCreateMany_NoUniqueKey(ob, jobId, operation, ids) ==
  ob \o [i \in 1..Len(ids) |-> OutboxRow(jobId, operation, ids[i])]

\* vectorOutbox.createMany({ data, skipDuplicates: true }) under the unique
\* key (ingestionJobId, operation, chunkId) of the migration.
RECURSIVE outboxCreateMany(_, _, _, _)
outboxCreateMany(ob, jobId, operation, ids) ==
  IF ids = <<>> THEN ob
  ELSE outboxCreateMany(
         IF hasOutboxKey(ob, jobId, operation, Head(ids)) THEN ob
         ELSE Append(ob, OutboxRow(jobId, operation, Head(ids))),
         jobId, operation, Tail(ids))

\* knowledgeChunk.createMany({ data: chunkRows, skipDuplicates: true })
chunkCreateMany(ch, jobId, ids, sourceType, uri) ==
  LET fresh == SeqToSet(ids) \ DOMAIN ch
  IN  [c \in DOMAIN ch \cup fresh |->
         IF c \in DOMAIN ch THEN ch[c]
         ELSE [deletedAt |-> FALSE, sourceType |-> sourceType, uri |-> uri,
               pageNo |-> c.page_no, createdByIngestionJobId |-> jobId]]

\* knowledgeChunk.updateMany({ where: { knowledgeSourceId, deletedAt: null },
\*                             data: { deletedAt: new Date() } })
chunkSoftDelete(ch, sourceId) ==
  [c \in DOMAIN ch |->
     IF c.source_id = sourceId /\ ~ch[c].deletedAt
     THEN [ch[c] EXCEPT !.deletedAt = TRUE] ELSE ch[c]]

\* A staging transaction that never soft-deletes.
stagedChunks_NoSoftDelete(jobId, sourceId, sourceRevision, ids, sourceType, uri) ==
  chunkCreateMany(chunks, jobId, ids, sourceType, uri)

\* The transaction of stageTextSource / stageWebLikeSource / stagePdfSource
\* (the three bodies are the same), for an existing source.
stagedChunks(jobId, sourceId, sourceRevision, ids, sourceType, uri) ==
  LET revisionChanged ==
        sources[sourceId].currentRevision # sourceRevision /\ activeChunks(sourceId) # {}
      ch1 == IF revisionChanged THEN chunkSoftDelete(chunks, sourceId) ELSE chunks
  IN  chunkCreateMany(ch1, jobId, ids, sourceType, uri)

\* A staging transaction that takes every staging for a change of revision.
stagedOutbox_AnyRevision(jobId, sourceId, sourceRevision, ids) ==
  outboxCreateMany(outboxCreateMany(outbox, jobId, "DELETE", SetToSeq(activeChunks(sourceId))),
                   jobId, "UPSERT", ids)

stagedOutbox(jobId, sourceId, sourceRevision, ids) ==
  LET prior == activeChunks(sourceId)
      revisionChanged == sources[sourceId].currentRevision # sourceRevision /\ prior # {}
      ob1 == IF revisionChanged
             THEN outboxCreateMany(outbox, jobId, "DELETE", SetToSeq(prior))
             ELSE outbox
  IN  outboxCreateMany(ob1, jobId, "UPSERT", ids)

stagedSources(jobId, sourceId, sourceRevision) ==
  [sources EXCEPT ![sourceId].status = "PENDING",
                  ![sourceId].currentRevision = sourceRevision,
                  ![sourceId].lastIngestionJobId = jobId]

\* -------------------------------------------------------------- Init
Init ==
  /\ now = 0
  /\ jobs = <<>>
  /\ sources = <<>>
  /\ chunks = [c \in {} |-> FALSE]
  /\ outbox = <<>>
  /\ vectors = {}
  /\ faults = 0
  /\ pc = [w \in Workers |-> "idle"]
  /\ job = [w \in Workers |-> NoJobRead]
  /\ items = [w \in Workers |-> <<>>]
  /\ running = [w \in Workers |-> <<>>]
  /\ scrape = [w \in Workers |-> NoScrape]
  /\ claimers = {}
  /\ stagers = {}
  /\ lostClaims = {}
  /\ stagingFailed = {}
  /\ overlaps = {}
  /\ crashes = 0
  /\ memory = [id \in {} |-> NoCall]
  /\ pinecone = [key \in {} |-> NoCall]
  /\ call = NoCall
  /\ chat = NoChat
  /\ applied = NoApplication
  /\ inFlight = FALSE
  /\ ticking = {}
  /\ skipped = 0

NewJob(kind, sourceId, payload) ==
  [kind |-> kind, status |-> "PENDING", knowledgeSourceId |-> sourceId,
   payload |-> payload, error |-> "", startedAt |-> -1, failedVectors |-> 0,
   totalChunks |-> 0]

NewSource(uri, jobId) ==
  [exists |-> TRUE, uri |-> uri, status |-> "PENDING", currentRevision |-> NoRevision,
   lastIngestionJobId |-> jobId]

\* ---------------------------------------------------- ingestion-queue.ts
\* enqueueTextIngestionJob (one transaction)
enqueueTextIngestionJob(key, content) ==
  LET uri == TextUri(key)
      existing == findSourceByUri(uri)
      jobId == Len(jobs) + 1
      sourceId == IF existing # NoSource THEN existing ELSE Len(sources) + 1
  IN  /\ existing # NoSource \/ Len(sources) < MaxSources
      /\ jobs' = Append(jobs, NewJob("TEXT", sourceId, [NoPayload EXCEPT !.content = content, !.uri = uri]))
      /\ sources' = IF existing # NoSource
                    THEN [sources EXCEPT ![existing].status = "PENDING",
                                         ![existing].lastIngestionJobId = jobId]
                    ELSE Append(sources, NewSource(uri, jobId))
      /\ UNCHANGED <<now, chunks, outbox, vectors, faults, pc, serviceVars, timerVars>>
      /\ UNCHANGED histVars
      /\ UNCHANGED localVars

\* enqueueScrapeIngestionJob
enqueueScrapeIngestionJob ==
  /\ jobs' = Append(jobs, NewJob("SCRAPE", NoSource, NoPayload))
  /\ UNCHANGED <<now, sources, chunks, outbox, vectors, faults, pc, serviceVars, timerVars>>
  /\ UNCHANGED histVars
  /\ UNCHANGED localVars

\* enqueueDeleteSourceJob, called by DELETE /sources/:id for a source found
enqueueDeleteSourceJob(sourceId) ==
  /\ sourceExists(sourceId)
  /\ jobs' = Append(jobs, NewJob("DELETE_SOURCE", sourceId, [NoPayload EXCEPT !.knowledgeSourceId = sourceId]))
  /\ sources' = [sources EXCEPT ![sourceId].status = "PENDING",
                                ![sourceId].lastIngestionJobId = Len(jobs) + 1]
  /\ UNCHANGED <<now, chunks, outbox, vectors, faults, pc, serviceVars, timerVars>>
  /\ UNCHANGED histVars
  /\ UNCHANGED localVars

\* Time passes, in steps of the smallest backoff.
TickMs == BackoffBaseMs

Tick(maxTicks) ==
  /\ now + TickMs <= maxTicks * TickMs
  /\ now' = now + TickMs
  /\ UNCHANGED <<jobs, sources, chunks, outbox, vectors, faults, pc, serviceVars, timerVars>>
  /\ UNCHANGED histVars
  /\ UNCHANGED localVars

\* ---------------------------------------------------- ingestion-worker.ts
Goto(w, label) == pc' = [pc EXCEPT ![w] = label]

\* A step of worker w that only touches the store and its own position.
StoreStep(w) == UNCHANGED <<now, vectors, faults, serviceVars, timerVars>>

\* reclaimStuckOutboxItems: the rows after its updateMany
reclaimedOutbox ==
  LET cutoff == now - OUTBOX_RUNNING_TTL_MS
      stuck(r) == /\ r.status = "RUNNING"
                  /\ r.updatedAt < cutoff
                  /\ r.attemptCount < INGESTION_MAX_VECTOR_ATTEMPTS
  IN  [i \in 1..Len(outbox) |->
         IF stuck(outbox[i])
         THEN [outbox[i] EXCEPT !.status = "FAILED",
                                !.nextAttemptAt = now,
                                !.updatedAt = now]
         ELSE outbox[i]]

\* tick(): reclaimStuckOutboxItems
reclaimStuckOutboxItems(w) ==
  /\ pc[w] = "idle"
  /\ outbox' = reclaimedOutbox
  /\ Goto(w, "findJob")
  /\ UNCHANGED <<jobs, sources, chunks>>
  /\ UNCHANGED histVars
  /\ UNCHANGED localVars
  /\ StoreStep(w)

\* processNextPendingJob: findFirst({ where: { status: "PENDING" }, orderBy createdAt })
findPendingJob(w) ==
  LET pending == {j \in 1..Len(jobs) : jobs[j].status = "PENDING"}
      j == CHOOSE x \in pending : \A y \in pending : x <= y
  IN  /\ pc[w] = "findJob"
      /\ IF pending = {}
         THEN /\ Goto(w, "findItems")
              /\ UNCHANGED job
         ELSE /\ Goto(w, "claimJob")
              /\ job' = [job EXCEPT ![w] =
                           [NoJobRead EXCEPT !.id = j,
                                             !.kind = jobs[j].kind,
                                             !.knowledgeSourceId = jobs[j].knowledgeSourceId,
                                             !.payload = jobs[j].payload]]
      /\ UNCHANGED <<items, running, scrape>>
      /\ UNCHANGED histVars
      /\ UNCHANGED dbVars
      /\ StoreStep(w)

\* A claim that leaves the status out of its where clause.
claimWhere_AnyStatus(j) == j \in 1..Len(jobs)

\* updateMany({ where: { id, status: "PENDING" }, data: { status: "RUNNING", ... } })
claimWhere(j) == jobs[j].status = "PENDING"

\* A claim whose where clause leaves out the id: every PENDING job is taken.
claimJob_EveryPending(w) ==
  LET j == job[w].id
  IN  /\ pc[w] = "claimJob"
      /\ IF claimWhere(j)
         THEN /\ jobs' = [k \in 1..Len(jobs) |->
                            IF jobs[k].status = "PENDING"
                            THEN [jobs[k] EXCEPT !.status = "RUNNING",
                                                 !.startedAt = now,
                                                 !.error = ""]
                            ELSE jobs[k]]
              /\ claimers' = Recorded(claimers, j)
              /\ Goto(w, "stage")
              /\ UNCHANGED job
              /\ UNCHANGED lostClaims
         ELSE /\ Goto(w, "findItems")
              /\ job' = [job EXCEPT ![w] = NoJobRead]
              /\ lostClaims' = lostClaims \cup {j}
              /\ UNCHANGED <<jobs, claimers>>
      /\ UNCHANGED <<sources, chunks, outbox, items, running, scrape, stagers,
                     stagingFailed, overlaps, crashes>>
      /\ StoreStep(w)

\* processNextPendingJob: the conditional claim
claimJob(w) ==
  LET j == job[w].id
  IN  /\ pc[w] = "claimJob"
      /\ IF claimWhere(j)
         THEN /\ jobs' = [jobs EXCEPT ![j].status = "RUNNING",
                                      ![j].startedAt = now,
                                      ![j].error = ""]
              /\ claimers' = Recorded(claimers, j)
              /\ Goto(w, "stage")
              /\ UNCHANGED job
              /\ UNCHANGED lostClaims
         ELSE /\ Goto(w, "findItems")
              /\ job' = [job EXCEPT ![w] = NoJobRead]
              /\ lostClaims' = lostClaims \cup {j}
              /\ UNCHANGED <<jobs, claimers>>
      /\ UNCHANGED <<sources, chunks, outbox, items, running, scrape, stagers,
                     stagingFailed, overlaps, crashes>>
      /\ StoreStep(w)

\* The staging of w's job throws: control goes to the catch block.
Throw(w, message) ==
  /\ job' = [job EXCEPT ![w].error = message]
  /\ Goto(w, "catchJob")

\* processNextPendingJob, kind TEXT: stageTextSource
stageTextSource(w) ==
  LET j == job[w].id
      sourceId == job[w].knowledgeSourceId
      content == job[w].payload.content
      sourceRevision == computeSourceRevision(content)
      ids == chunkIdsOf(sourceId, sourceRevision, NoPage, content)
  IN  /\ pc[w] = "stage"
      /\ job[w].kind = "TEXT"
      /\ stagers' = Recorded(stagers, j)
      /\ IF sourceId = NoSource
         THEN Throw(w, "TEXT job missing knowledgeSourceId") /\ UNCHANGED dbVars
         ELSE IF chunkTextWithOffsets(content) = <<>>
         THEN Throw(w, "canonicalText empty") /\ UNCHANGED dbVars
         ELSE IF ~sourceExists(sourceId)
         THEN Throw(w, "KnowledgeSource not found") /\ UNCHANGED dbVars
         ELSE /\ chunks' = stagedChunks(j, sourceId, sourceRevision, ids, "TEXT",
                                        job[w].payload.uri)
              /\ outbox' = stagedOutbox(j, sourceId, sourceRevision, ids)
              /\ sources' = stagedSources(j, sourceId, sourceRevision)
              /\ jobs' = [jobs EXCEPT ![j].totalChunks = Len(ids)]
              /\ Goto(w, "findItems")
              /\ job' = [job EXCEPT ![w] = NoJobRead]
      /\ overlaps' = IF pc'[w] = "findItems"
                     THEN overlaps \cup
                          {<<j, job[v].id>> : v \in {u \in Workers \ {w} :
                              pc[u] = "stage" /\ job[u].knowledgeSourceId = sourceId}}
                     ELSE overlaps
      /\ UNCHANGED <<items, running, scrape, claimers, lostClaims, stagingFailed, crashes>>
      /\ StoreStep(w)

\* processNextPendingJob, kind DELETE_SOURCE: stageDeleteSource
stageDeleteSource(w) ==
  LET j == job[w].id
      sourceId == job[w].payload.knowledgeSourceId
      prior == activeChunks(sourceId)
  IN  /\ pc[w] = "stage"
      /\ job[w].kind = "DELETE_SOURCE"
      /\ stagers' = Recorded(stagers, j)
      /\ IF ~sourceExists(sourceId)
         THEN Throw(w, "Record to update not found") /\ UNCHANGED dbVars
         ELSE /\ chunks' = IF prior # {} THEN chunkSoftDelete(chunks, sourceId) ELSE chunks
              /\ outbox' = IF prior # {}
                           THEN outboxCreateMany(outbox, j, "DELETE", SetToSeq(prior))
                           ELSE outbox
              /\ sources' = [sources EXCEPT ![sourceId].status = "PENDING",
                                            ![sourceId].lastIngestionJobId = j]
              /\ Goto(w, "findItems")
              /\ job' = [job EXCEPT ![w] = NoJobRead]
              /\ UNCHANGED jobs
      /\ UNCHANGED <<items, running, scrape, claimers, lostClaims, stagingFailed, overlaps, crashes>>
      /\ StoreStep(w)

\* processNextPendingJob, kind SCRAPE: runScrapeJob up to the loops.  The
\* scraper's result is an input; pages are staged before pdf items.
runScrapeJob(w) ==
  /\ pc[w] = "stage"
  /\ job[w].kind = "SCRAPE"
  /\ \E datasetItems \in Datasets :
       LET pages == SelectSeq(datasetItems, LAMBDA it : it.type = "page")
           pdfItems == SelectSeq(datasetItems, LAMBDA it : it.type = "pdf")
       IN  scrape' = [scrape EXCEPT ![w] = [NoScrape EXCEPT !.todo = pages \o pdfItems]]
  /\ stagers' = Recorded(stagers, job[w].id)
  /\ Goto(w, "scrapeItem")
  /\ UNCHANGED <<job, items, running, claimers, lostClaims, stagingFailed, overlaps, crashes>>
  /\ UNCHANGED dbVars
  /\ StoreStep(w)

\* upsertKnowledgeSource
upsertKnowledgeSource(uri, jobId) ==
  LET existing == findSourceByUri(uri)
  IN  IF existing # NoSource
      THEN [sources EXCEPT ![existing].status = "PENDING",
                           ![existing].lastIngestionJobId = jobId]
      ELSE Append(sources, NewSource(uri, jobId))

\* String.prototype.trim() of the raw text is empty.
trimIsEmpty(content) == content = ""

\* Whether runScrapeJob skips a dataset item without touching the store.
scrapeSkips(it, handledPdfUrls) ==
  IF it.type = "page"
  THEN trimIsEmpty(it.main_text)
  ELSE \/ it.uri = ""
       \/ it.uri \in handledPdfUrls
       \/ (it.pages = <<>> /\ ~it.perplexity_content)

\* runScrapeJob: the head of a loop iteration, up to upsertKnowledgeSource
scrapeItem(w) ==
  LET sc == scrape[w]
      it == Head(sc.todo)
      uri == it.uri
  IN  /\ pc[w] = "scrapeItem"
      /\ IF sc.todo = <<>>
         THEN /\ IF sc.stagedChunks = 0
                 THEN Throw(w, "Scrape job produced no ingestible content")
                 ELSE Goto(w, "findItems") /\ job' = [job EXCEPT ![w] = NoJobRead]
              /\ scrape' = [scrape EXCEPT ![w] = NoScrape]
              /\ UNCHANGED sources
         ELSE IF scrapeSkips(it, sc.handledPdfUrls)
         THEN /\ scrape' = [scrape EXCEPT
                   ![w].todo = Tail(@),
                   ![w].handledPdfUrls = IF it.type = "pdf" /\ uri # "" THEN @ \cup {uri} ELSE @]
              /\ UNCHANGED <<pc, job, sources>>
         ELSE /\ sources' = upsertKnowledgeSource(uri, job[w].id)
              /\ scrape' = [scrape EXCEPT
                   ![w].sourceId = IF findSourceByUri(uri) # NoSource
                                   THEN findSourceByUri(uri) ELSE Len(sources) + 1,
                   ![w].handledPdfUrls = IF it.type = "pdf" THEN @ \cup {uri} ELSE @]
              /\ Goto(w, "scrapeStage")
              /\ UNCHANGED job
      /\ UNCHANGED <<jobs, chunks, outbox, items, running>>
      /\ UNCHANGED histVars
      /\ StoreStep(w)

\* runScrapeJob: stageWebLikeSource for a page; for a pdf the rest of
\* ingestPdf, that is the perplexity check and stagePdfSource
scrapeStage(w) ==
  LET sc == scrape[w]
      it == Head(sc.todo)
      j == job[w].id
      sourceId == sc.sourceId
      isPdf == it.type = "pdf"
      canonicalPages ==
        SelectSeq([i \in 1..Len(it.pages) |->
                     [pageNo |-> it.pages[i].pageNo, canonicalText |-> it.pages[i].text]],
                  LAMBDA p : canonicalLength(p.canonicalText) > 0)
      sourceRevision == IF isPdf THEN computePdfSourceRevision(canonicalPages)
                        ELSE computeSourceRevision(it.main_text)
      ids == IF isPdf THEN pdfChunkIdsOf(sourceId, sourceRevision, canonicalPages)
             ELSE chunkIdsOf(sourceId, sourceRevision, NoPage, it.main_text)
      message ==
        IF isPdf
        THEN IF it.perplexity_content
             THEN "PDF missing pages[]; cannot generate required page anchors"
             ELSE IF it.pages = <<>> THEN "PDF pages required for anchors"
             ELSE IF canonicalPages = <<>> THEN "PDF pages empty after canonicalization"
             ELSE IF ~sourceExists(sourceId) THEN "KnowledgeSource not found"
             ELSE ""
        ELSE IF it.uri = "" THEN "WEB source requires uri for citations"
             ELSE IF chunkTextWithOffsets(it.main_text) = <<>> THEN "canonicalText empty"
             ELSE IF ~sourceExists(sourceId) THEN "KnowledgeSource not found"
             ELSE ""
  IN  /\ pc[w] = "scrapeStage"
      /\ IF message # ""
         THEN /\ Throw(w, message)
              /\ UNCHANGED <<chunks, outbox, sources, scrape>>
         ELSE /\ chunks' = stagedChunks(j, sourceId, sourceRevision, ids,
                                        IF isPdf THEN "PDF" ELSE "WEB", it.uri)
              /\ outbox' = stagedOutbox(j, sourceId, sourceRevision, ids)
              /\ sources' = stagedSources(j, sourceId, sourceRevision)
              /\ scrape' = [scrape EXCEPT ![w].todo = Tail(@),
                                          ![w].stagedChunks = @ + Len(ids)]
              /\ Goto(w, "scrapeItem")
              /\ UNCHANGED job
      /\ UNCHANGED <<jobs, items, running>>
      /\ UNCHANGED histVars
      /\ StoreStep(w)

\* processNextPendingJob: catch (err), the job update
catchJob(w) ==
  LET j == job[w].id
  IN  /\ pc[w] = "catchJob"
      /\ jobs' = [jobs EXCEPT ![j].status = "FAILED", ![j].error = job[w].error]
      /\ IF job[w].knowledgeSourceId # NoSource
         THEN Goto(w, "catchSource") /\ UNCHANGED job
         ELSE Goto(w, "idle") /\ job' = [job EXCEPT ![w] = NoJobRead]
      /\ scrape' = [scrape EXCEPT ![w] = NoScrape]
      /\ stagingFailed' = stagingFailed \cup {j}
      /\ UNCHANGED <<sources, chunks, outbox, items, running, claimers, stagers,
                     lostClaims, overlaps, crashes>>
      /\ StoreStep(w)

\* processNextPendingJob: catch (err), the source update; then `throw err`
\* ends the tick in tick()'s own catch.
catchSource(w) ==
  LET sourceId == job[w].knowledgeSourceId
  IN  /\ pc[w] = "catchSource"
      /\ sources' = IF sourceExists(sourceId)
                    THEN [sources EXCEPT ![sourceId].status = "FAILED",
                                         ![sourceId].lastIngestionJobId = job[w].id]
                    ELSE sources
      /\ Goto(w, "idle")
      /\ job' = [job EXCEPT ![w] = NoJobRead]
      /\ UNCHANGED <<jobs, chunks, outbox, items, running, scrape>>
      /\ UNCHANGED histVars
      /\ StoreStep(w)

\* The worker process is killed in the middle of a tick and started again:
\* its locals are lost, the store keeps what was written.
Crash(w, maxCrashes) ==
  /\ pc[w] # "idle"
  /\ crashes < maxCrashes
  /\ crashes' = crashes + 1
  /\ pc' = [pc EXCEPT ![w] = "idle"]
  /\ job' = [job EXCEPT ![w] = NoJobRead]
  /\ items' = [items EXCEPT ![w] = <<>>]
  /\ running' = [running EXCEPT ![w] = <<>>]
  /\ scrape' = [scrape EXCEPT ![w] = NoScrape]
  /\ UNCHANGED <<now, vectors, faults, claimers, stagers, lostClaims, stagingFailed, overlaps,
                 serviceVars, timerVars>>
  /\ UNCHANGED dbVars

\* The loop of processOutboxBatch moves to its next item, or the tick moves on.
NextItem(w) ==
  /\ items' = [items EXCEPT ![w] = Tail(@)]
  /\ Goto(w, IF Len(items[w]) > 1 THEN "claimItem" ELSE "findRunning")

\* A selection that never takes a FAILED row again.
outboxEligible_PendingOnly(r) ==
  /\ r.status = "PENDING"
  /\ r.nextAttemptAt <= now
  /\ r.attemptCount < INGESTION_MAX_VECTOR_ATTEMPTS

\* where: { status in [PENDING, FAILED], nextAttemptAt <= now, attemptCount < max }
outboxEligible(r) ==
  /\ r.status \in {"PENDING", "FAILED"}
  /\ r.nextAttemptAt <= now
  /\ r.attemptCount < INGESTION_MAX_VECTOR_ATTEMPTS

\* processOutboxBatch: findMany({ where, orderBy: createdAt, take: 10 })
findOutboxItems(w) ==
  LET found == Take(Ascending({i \in 1..Len(outbox) : outboxEligible(outbox[i])}), OutboxBatchTake)
  IN  /\ pc[w] = "findItems"
      /\ items' = [items EXCEPT ![w] =
           [k \in 1..Len(found) |->
              [id |-> found[k],
               ingestionJobId |-> outbox[found[k]].ingestionJobId,
               operation |-> outbox[found[k]].operation,
               chunkId |-> outbox[found[k]].chunkId,
               attemptCount |-> outbox[found[k]].attemptCount,
               ok |-> FALSE]]]
      /\ Goto(w, IF found = <<>> THEN "findRunning" ELSE "claimItem")
      /\ UNCHANGED <<job, running, scrape>>
      /\ UNCHANGED histVars
      /\ UNCHANGED dbVars
      /\ StoreStep(w)

\* updateMany({ where: { id, status: { in: [PENDING, FAILED] } }, ... })
claimItemWhere(r) == r.status \in {"PENDING", "FAILED"}

\* processOutboxBatch: the conditional claim of one item
claimItem(w) ==
  LET item == Head(items[w])
  IN  /\ pc[w] = "claimItem"
      /\ IF claimItemWhere(outbox[item.id])
         THEN /\ outbox' = [outbox EXCEPT ![item.id].status = "RUNNING",
                                          ![item.id].attemptCount = @ + 1,
                                          ![item.id].updatedAt = now]
              /\ Goto(w, "execItem")
              /\ UNCHANGED items
         ELSE /\ NextItem(w)
              /\ UNCHANGED outbox
      /\ UNCHANGED <<jobs, sources, chunks, job, running, scrape>>
      /\ UNCHANGED histVars
      /\ StoreStep(w)

\* A check of the offsets only.
assertValidCitationFields_OffsetsOnly(chunkId) ==
  chunkId.end_offset > chunkId.start_offset

\* assertValidCitationFields
assertValidCitationFields(chunkId) ==
  /\ chunkId.end_offset > chunkId.start_offset
  /\ chunks[chunkId].sourceType = "WEB" => chunks[chunkId].uri # ""
  /\ chunks[chunkId].sourceType = "PDF" => chunks[chunkId].pageNo # NoPage

\* processOutboxBatch: the try block of one claimed item.  The embedding
\* call and the vector store call may fail.
execItem(w, maxFailures) ==
  LET item == Head(items[w])
      rejected == IF item.operation # "UPSERT" THEN FALSE
                  ELSE IF item.chunkId \notin DOMAIN chunks THEN TRUE
                  ELSE ~assertValidCitationFields(item.chunkId)
  IN  /\ pc[w] = "execItem"
      /\ \/ /\ ~rejected
            /\ vectors' = IF item.operation = "UPSERT"
                          THEN vectors \cup {item.chunkId}
                          ELSE vectors \ {item.chunkId}
            /\ Goto(w, "itemSucceeded")
            /\ UNCHANGED faults
         \/ /\ ~rejected
            /\ faults < maxFailures
            /\ faults' = faults + 1
            /\ Goto(w, "itemFailed")
            /\ UNCHANGED vectors
         \/ /\ rejected
            /\ Goto(w, "itemFailed")
            /\ UNCHANGED <<vectors, faults>>
      /\ UNCHANGED <<now, serviceVars, timerVars>>
      /\ UNCHANGED histVars
      /\ UNCHANGED dbVars
      /\ UNCHANGED localVars

\* processOutboxBatch: update({ data: { status: "SUCCEEDED", ... } })
itemSucceeded(w) ==
  LET item == Head(items[w])
  IN  /\ pc[w] = "itemSucceeded"
      /\ outbox' = [outbox EXCEPT ![item.id].status = "SUCCEEDED",
                                  ![item.id].nextAttemptAt = now,
                                  ![item.id].updatedAt = now]
      /\ NextItem(w)
      /\ UNCHANGED <<jobs, sources, chunks, job, running, scrape>>
      /\ UNCHANGED histVars
      /\ StoreStep(w)

\* processOutboxBatch: catch (err), the outbox update
itemFailed(w) ==
  LET item == Head(items[w])
      attempt == item.attemptCount + 1
      retryAt == now + backoffMs(attempt)
  IN  /\ pc[w] = "itemFailed"
      /\ outbox' = [outbox EXCEPT ![item.id].status = "FAILED",
                                  ![item.id].nextAttemptAt = retryAt,
                                  ![item.id].updatedAt = now]
      /\ Goto(w, "itemFailedJob")
      /\ UNCHANGED <<jobs, sources, chunks>>
      /\ UNCHANGED histVars
      /\ UNCHANGED localVars
      /\ StoreStep(w)

\* processOutboxBatch: catch (err), the job's failure counter
itemFailedJob(w) ==
  LET item == Head(items[w])
  IN  /\ pc[w] = "itemFailedJob"
      /\ jobs' = [jobs EXCEPT ![item.ingestionJobId].failedVectors = @ + 1,
                              ![item.ingestionJobId].error = "outbox attempt failed"]
      /\ NextItem(w)
      /\ UNCHANGED <<sources, chunks, outbox, job, running, scrape>>
      /\ UNCHANGED histVars
      /\ StoreStep(w)

\* The loop of finalizeJobsIfPossible moves to its next job, or the tick ends.
NextRunning(w) ==
  /\ running' = [running EXCEPT ![w] = Tail(@)]
  /\ Goto(w, IF Len(running[w]) > 1 THEN "countOutbox" ELSE "idle")

outboxOf(jobId) == {i \in 1..Len(outbox) : outbox[i].ingestionJobId = jobId}

\* finalizeJobsIfPossible: findMany({ where: { status: "RUNNING" }, take: 20 })
findRunningJobs(w) ==
  LET found == Take(Ascending({j \in 1..Len(jobs) : jobs[j].status = "RUNNING"}), RunningJobsTake)
  IN  /\ pc[w] = "findRunning"
      /\ running' = [running EXCEPT ![w] =
           [k \in 1..Len(found) |->
              [NoJobRead EXCEPT !.id = found[k],
                                !.kind = jobs[found[k]].kind,
                                !.knowledgeSourceId = jobs[found[k]].knowledgeSourceId,
                                !.startedAt = jobs[found[k]].startedAt]]]
      /\ Goto(w, IF found = <<>> THEN "idle" ELSE "countOutbox")
      /\ UNCHANGED <<job, items, scrape>>
      /\ UNCHANGED histVars
      /\ UNCHANGED dbVars
      /\ StoreStep(w)

\* finalizeJobsIfPossible: totalOutbox
countOutbox(w) ==
  LET j == Head(running[w])
      cutoff == now - OUTBOX_RUNNING_TTL_MS
  IN  /\ pc[w] = "countOutbox"
      /\ IF outboxOf(j.id) = {}
         THEN IF j.startedAt # -1 /\ j.startedAt < cutoff
              THEN Goto(w, "failStuckJob") /\ UNCHANGED running
              ELSE NextRunning(w)
         ELSE Goto(w, "countPendingOrRunning") /\ UNCHANGED running
      /\ UNCHANGED <<job, items, scrape>>
      /\ UNCHANGED histVars
      /\ UNCHANGED dbVars
      /\ StoreStep(w)

\* finalizeJobsIfPossible: a job RUNNING without outbox rows past the TTL
failStuckJob(w) ==
  LET j == Head(running[w])
  IN  /\ pc[w] = "failStuckJob"
      /\ jobs' = [jobs EXCEPT ![j.id].status = "FAILED",
                              ![j.id].error = "Job stuck in RUNNING without outbox items (reclaimed)"]
      /\ NextRunning(w)
      /\ UNCHANGED <<sources, chunks, outbox, job, items, scrape>>
      /\ UNCHANGED histVars
      /\ StoreStep(w)

\* finalizeJobsIfPossible: pendingOrRunning
countPendingOrRunning(w) ==
  LET j == Head(running[w])
      pendingOrRunning ==
        {i \in outboxOf(j.id) : outbox[i].status \in {"PENDING", "RUNNING"}}
  IN  /\ pc[w] = "countPendingOrRunning"
      /\ IF pendingOrRunning # {}
         THEN NextRunning(w)
         ELSE Goto(w, "countRetryableFailed") /\ UNCHANGED running
      /\ UNCHANGED <<job, items, scrape>>
      /\ UNCHANGED histVars
      /\ UNCHANGED dbVars
      /\ StoreStep(w)

\* finalizeJobsIfPossible: retryableFailed
countRetryableFailed(w) ==
  LET j == Head(running[w])
      retryableFailed ==
        {i \in outboxOf(j.id) : /\ outbox[i].status = "FAILED"
                                /\ outbox[i].attemptCount < INGESTION_MAX_VECTOR_ATTEMPTS}
  IN  /\ pc[w] = "countRetryableFailed"
      /\ IF retryableFailed # {}
         THEN NextRunning(w)
         ELSE Goto(w, "countTerminalFailed") /\ UNCHANGED running
      /\ UNCHANGED <<job, items, scrape>>
      /\ UNCHANGED histVars
      /\ UNCHANGED dbVars
      /\ StoreStep(w)

\* finalizeJobsIfPossible: terminalFailed and nextStatus
countTerminalFailed(w) ==
  LET j == Head(running[w])
      terminalFailed ==
        {i \in outboxOf(j.id) : /\ outbox[i].status = "FAILED"
                                /\ outbox[i].attemptCount >= INGESTION_MAX_VECTOR_ATTEMPTS}
      nextStatus == IF terminalFailed # {} THEN "PARTIAL_FAILED" ELSE "SUCCEEDED"
  IN  /\ pc[w] = "countTerminalFailed"
      /\ running' = [running EXCEPT ![w][1].nextStatus = nextStatus]
      /\ Goto(w, "finalizeJob")
      /\ UNCHANGED <<job, items, scrape>>
      /\ UNCHANGED histVars
      /\ UNCHANGED dbVars
      /\ StoreStep(w)

\* finalizeJobsIfPossible: update({ data: { status: nextStatus, finishedAt } })
finalizeJob(w) ==
  LET j == Head(running[w])
  IN  /\ pc[w] = "finalizeJob"
      /\ jobs' = [jobs EXCEPT ![j.id].status = j.nextStatus]
      /\ IF j.knowledgeSourceId # NoSource \/ j.kind = "SCRAPE"
         THEN Goto(w, "finalizeSource") /\ UNCHANGED running
         ELSE NextRunning(w)
      /\ UNCHANGED <<sources, chunks, outbox, job, items, scrape>>
      /\ UNCHANGED histVars
      /\ StoreStep(w)

\* knowledgeSource.delete with the foreign keys of the migration:
\* KnowledgeChunk ON DELETE CASCADE, IngestionJob ON DELETE SET NULL.
sourceDeleted(sourceId) ==
  /\ sources' = [sources EXCEPT ![sourceId].exists = FALSE]
  /\ chunks' = [c \in {d \in DOMAIN chunks : d.source_id # sourceId} |-> chunks[c]]
  /\ jobs' = [i \in 1..Len(jobs) |->
                IF jobs[i].knowledgeSourceId = sourceId
                THEN [jobs[i] EXCEPT !.knowledgeSourceId = NoSource] ELSE jobs[i]]

\* finalizeJobsIfPossible: the source(s) of the finalized job
finalizeSource(w) ==
  LET j == Head(running[w])
      sourceId == j.knowledgeSourceId
      status == IF j.nextStatus = "SUCCEEDED" THEN "READY" ELSE "FAILED"
  IN  /\ pc[w] = "finalizeSource"
      /\ IF sourceId # NoSource
         THEN IF ~sourceExists(sourceId)
              THEN UNCHANGED <<sources, chunks, jobs>>
              ELSE IF j.nextStatus = "SUCCEEDED" /\ j.kind = "DELETE_SOURCE"
              THEN sourceDeleted(sourceId)
              ELSE /\ sources' = [sources EXCEPT ![sourceId].status = status]
                   /\ UNCHANGED <<chunks, jobs>>
         ELSE /\ sources' = [i \in 1..Len(sources) |->
                               IF sources[i].exists /\ sources[i].lastIngestionJobId = j.id
                               THEN [sources[i] EXCEPT !.status = status] ELSE sources[i]]
              /\ UNCHANGED <<chunks, jobs>>
      /\ NextRunning(w)
      /\ UNCHANGED <<outbox, job, items, scrape>>
      /\ UNCHANGED histVars
      /\ StoreStep(w)

\* ------------------------------------------------------------- the system
\* Requests of the knowledge routes, at most maxJobs of them.
EnqueueText(maxJobs, contents) ==
  /\ Len(jobs) < maxJobs
  /\ \E key \in TextKeys, content \in contents : enqueueTextIngestionJob(key, content)

EnqueueScrape(maxJobs) ==
  /\ Len(jobs) < maxJobs
  /\ enqueueScrapeIngestionJob

EnqueueDelete(maxJobs) ==
  /\ Len(jobs) < maxJobs
  /\ \E sourceId \in 1..Len(sources) : enqueueDeleteSourceJob(sourceId)

\* tick() up to the end of processNextPendingJob, for TEXT and DELETE_SOURCE jobs
ClaimSteps(w) ==
  \/ reclaimStuckOutboxItems(w)
  \/ findPendingJob(w)
  \/ claimJob(w)

CatchSteps(w) ==
  \/ catchJob(w)
  \/ catchSource(w)

ScrapeSteps(w) ==
  \/ runScrapeJob(w)
  \/ scrapeItem(w)
  \/ scrapeStage(w)

\* processOutboxBatch
DrainSteps(w, maxFailures) ==
  \/ findOutboxItems(w)
  \/ claimItem(w)
  \/ execItem(w, maxFailures)
  \/ itemSucceeded(w)

DrainFailureSteps(w) ==
  \/ itemFailed(w)
  \/ itemFailedJob(w)

\* finalizeJobsIfPossible
FinalizeSteps(w) ==
  \/ findRunningJobs(w)
  \/ countOutbox(w)
  \/ countPendingOrRunning(w)
  \/ countRetryableFailed(w)
  \/ countTerminalFailed(w)
  \/ finalizeJob(w)
  \/ finalizeSource(w)

\* ------------------------------------------------------- vector stores
\* The worker and the chat service reach the index through the VectorStore
\* interface; getVectorStore() picks one of the two implementations.  Here
\* every call is made on both, so that they can be compared.
Chatbots == {"botA", "botB"}
VectorIds == {"v1", "v2"}
Embeddings == {"e1", "e2"}

ingestionVars == <<now, jobs, sources, chunks, outbox, vectors, faults, pc, job, items,
                   running, scrape, claimers, stagers, lostClaims, stagingFailed,
                   overlaps, crashes, timerVars>>

\* { id, vector, metadata: { chatbotId, ... } }
StoredVector(vectorId, vector, chatbotId) ==
  [id |-> vectorId, vector |-> vector, chatbotId |-> chatbotId]

\* this.store.set(vectorId, { id: vectorId, vector, metadata, content: "" })
MemoryVectorStore_upsertEmbedding(store, vectorId, vector, chatbotId) ==
  [id \in DOMAIN store \cup {vectorId} |->
     IF id = vectorId THEN StoredVector(vectorId, vector, chatbotId) ELSE store[id]]

\* the loop of similaritySearch; topK is taken to be at least the store's size
MemoryVectorStore_similaritySearch(store, chatbotId) ==
  {store[id] : id \in {i \in DOMAIN store :
                         ~(store[i].chatbotId # "" /\ store[i].chatbotId # chatbotId)}}

\* vectorIds.forEach((id) => this.store.delete(id))
MemoryVectorStore_deleteByIds(store, chatbotId, vectorIds) ==
  [id \in DOMAIN store \ vectorIds |-> store[id]]

MemoryVectorStore_deleteByChatbot(store, chatbotId) ==
  [id \in {i \in DOMAIN store : store[i].chatbotId # chatbotId} |-> store[id]]

\* metadata.chatbotId ?? "global", chatbotId || "global"
namespace(chatbotId) == IF chatbotId = "" THEN "global" ELSE chatbotId

\* this.index.namespace(ns).upsert([{ id, values, metadata }])
PineconeVectorStore_upsertEmbedding(index, vectorId, vector, chatbotId) ==
  LET key == <<namespace(chatbotId), vectorId>>
  IN  [k \in DOMAIN index \cup {key} |->
         IF k = key THEN StoredVector(vectorId, vector, chatbotId) ELSE index[k]]

\* this.index.namespace(ns).query({ vector, topK, includeMetadata: true })
PineconeVectorStore_similaritySearch(index, chatbotId) ==
  {index[k] : k \in {x \in DOMAIN index : x[1] = namespace(chatbotId)}}

\* this.index.namespace(ns).deleteMany(chunk)
PineconeVectorStore_deleteByIds(index, chatbotId, vectorIds) ==
  [k \in {x \in DOMAIN index : ~(x[1] = namespace(chatbotId) /\ x[2] \in vectorIds)} |->
     index[k]]

\* nspace.deleteAll()
PineconeVectorStore_deleteByChatbot(index, chatbotId) ==
  [k \in {x \in DOMAIN index : x[1] # namespace(chatbotId)} |-> index[k]]

Called(op, chatbotId) ==
  [op |-> op, chatbotId |-> chatbotId, memoryMatches |-> {}, pineconeMatches |-> {}]

upsertEmbedding(chatbotId, vectorId, vector) ==
  /\ memory' = MemoryVectorStore_upsertEmbedding(memory, vectorId, vector, chatbotId)
  /\ pinecone' = PineconeVectorStore_upsertEmbedding(pinecone, vectorId, vector, chatbotId)
  /\ call' = Called("upsertEmbedding", chatbotId)
  /\ UNCHANGED <<ingestionVars, chat, applied>>

similaritySearch(chatbotId) ==
  /\ call' = [Called("similaritySearch", chatbotId) EXCEPT
                !.memoryMatches = MemoryVectorStore_similaritySearch(memory, chatbotId),
                !.pineconeMatches = PineconeVectorStore_similaritySearch(pinecone, chatbotId)]
  /\ UNCHANGED <<memory, pinecone>>
  /\ UNCHANGED <<ingestionVars, chat, applied>>

deleteByIds(chatbotId, vectorIds) ==
  /\ memory' = MemoryVectorStore_deleteByIds(memory, chatbotId, vectorIds)
  /\ pinecone' = PineconeVectorStore_deleteByIds(pinecone, chatbotId, vectorIds)
  /\ call' = Called("deleteByIds", chatbotId)
  /\ UNCHANGED <<ingestionVars, chat, applied>>

deleteByChatbot(chatbotId) ==
  /\ memory' = MemoryVectorStore_deleteByChatbot(memory, chatbotId)
  /\ pinecone' = PineconeVectorStore_deleteByChatbot(pinecone, chatbotId)
  /\ call' = Called("deleteByChatbot", chatbotId)
  /\ UNCHANGED <<ingestionVars, chat, applied>>

\* --------------------------------------------------------- chat service
\* ChatService exists twice in the repository: src/services/chat.service.ts
\* and a later revision of the same file (part_002) with small talk, a
\* clarification reply and a generated off-topic reply.
ChatFiles == {"chat.service.ts", "part_002"}

\* retrieveCandidates' locals and handleMessage's slice(0, 5)
targetHydrated == 20
initialTopK == 20
maxTopK == 1000
TopContexts == 5

\* The configurations: every provider with every relevance floor, and the
\* other settings varied under one of them.  Scores and relevance are in
\* hundredths, RAG_MAX_CONTEXT_CHARS leaves room for one context (130), for
\* one and a shortened one (180), or for all.
Envs ==
  [VECTOR_DB_PROVIDER : {"memory", "pinecone"},
   RAG_MIN_RELEVANCE : {0, 40, 60},
   RAG_MIN_HYDRATED_CHUNKS : {2},
   RAG_MIN_SUPPORTED_CLAIMS : {1},
   RAG_MAX_CONTEXT_CHARS : {4000},
   RAG_ENABLE_QUERY_REWRITE : {FALSE}]
  \cup
  [VECTOR_DB_PROVIDER : {"pinecone"},
   RAG_MIN_RELEVANCE : {40},
   RAG_MIN_HYDRATED_CHUNKS : {1, 2},
   RAG_MIN_SUPPORTED_CLAIMS : {1, 2},
   RAG_MAX_CONTEXT_CHARS : {130, 180, 4000},
   RAG_ENABLE_QUERY_REWRITE : BOOLEAN]

\* A match of the index whose id has a live, citable KnowledgeChunk row: its
\* rank among the raw matches, its score, and the lengths buildContextString
\* works with (header lines above the offsets, canonicalText).
Live(rank, id, score) ==
  [rank |-> rank, id |-> id, score |-> score, header |-> 30, body |-> 50,
   start_offset |-> 0, end_offset |-> 50]

\* What the index and the manifest hold for the question: the number of raw
\* matches a search can return, and those of them that hydrate.
IndexContents ==
  { NoIndex,
    [total |-> 1, live |-> <<Live(1, "c1", 80)>>],
    [total |-> 3, live |-> <<Live(1, "c1", 80), Live(2, "c2", 70), Live(3, "c3", 60)>>],
    [total |-> 6, live |-> <<Live(1, "c1", 80), Live(2, "c2", 70), Live(3, "c3", 60),
                             Live(4, "c4", 50), Live(5, "c5", 40), Live(6, "c6", 30)>>],
    [total |-> 2, live |-> <<Live(1, "c1", 10), Live(2, "c2", 0)>>],
    [total |-> 2, live |-> <<>>],
    [total |-> 1200, live |-> <<>>],
    [total |-> 30, live |-> <<Live(25, "c1", 80), Live(26, "c2", 70)>>],
    [total |-> 20, live |-> <<Live(1, "c1", 80), Live(20, "c2", 70)>>] }

\* message contents: a question, small talk, a message too short to answer, blank
Messages == {"question", "hallo", "?", " "}

Claim(text, supporting_chunk_ids) ==
  [text |-> text, supporting_chunk_ids |-> supporting_chunk_ids]
Json(claims, unknown, reason) ==
  [throws |-> FALSE, json |-> TRUE, schema |-> TRUE, claims |-> claims,
   unknown |-> unknown, reason |-> reason]

\* What chatModel.invoke can come back with: an error, text that is not JSON,
\* JSON of another shape, and JSON objects { claims, unknown, reason? }
\* (reason "" stands for no reason).
Completions ==
  { [NoAnswer EXCEPT !.throws = TRUE],
    NoAnswer,
    [NoAnswer EXCEPT !.json = TRUE],
    Json(<<>>, TRUE, "steht nicht im Kontext"),
    Json(<<>>, TRUE, ""),
    Json(<<>>, FALSE, ""),
    Json(<<Claim("t", <<"c1">>)>>, TRUE, "steht nicht im Kontext"),
    Json(<<Claim("t", <<"c1">>)>>, FALSE, ""),
    Json(<<Claim("t", <<"c2">>)>>, FALSE, ""),
    Json(<<Claim("t", <<"c1", "c2">>)>>, FALSE, ""),
    Json(<<Claim("t", <<"c1">>), Claim("u", <<"c2">>)>>, FALSE, ""),
    Json(<<Claim("t", <<"c1", "c9">>)>>, FALSE, ""),
    Json(<<Claim("t", <<>>)>>, FALSE, ""),
    Json(<<Claim("", <<"c1">>)>>, FALSE, "") }

\* What rerankModel.invoke can come back with: an error, or text whose
\* parseInt values are these (<<>> when nothing parses).
NoReply == [throws |-> FALSE, ids |-> <<>>]
RerankReplies ==
  { [NoReply EXCEPT !.throws = TRUE] } \cup
  { [NoReply EXCEPT !.ids = ids] :
      ids \in {<<>>, <<1>>, <<2, 1>>, <<1, 1>>, <<9, 0>>, <<3, 2, 1>>} }

\* rewriteModel.invoke: an error, a usable line, a line of fewer than 3 characters
RewriteReplies == {"throws", "keywords", "ab"}

normalizeRelevance(provider, score) ==
  IF provider = "memory"
    THEN Max(0, Min(100, (score + 100) \div 2))
    ELSE Max(0, Min(100, score))

\* rawMatches.length for the topK asked for
rawMatches(index, topK) == Min(index.total, topK)

\* hydrateMatches(rawMatches): the matches with a live, citable chunk row
hydrateMatches(index, topK) ==
  LET fetched(m) == m.rank <= topK
  IN  SelectSeq(index.live, fetched)

\* rerank() once the reply is there
RECURSIVE ordered(_, _, _)
ordered(docs, ids, i) ==
  IF i > Len(ids) THEN <<>>
  ELSE <<[docs[ids[i]] EXCEPT !.score = Len(docs) - (i - 1)]>> \o ordered(docs, ids, i + 1)

rerank(docs, reply) ==
  LET inRange(n) == n >= 1 /\ n <= Len(docs)
      ids == SelectSeq(reply.ids, inRange)
  IN  IF ids = <<>> THEN SubSeq(docs, 1, Min(Len(docs), 5)) ELSE ordered(docs, ids, 1)

Digits(n) == IF n < 10 THEN 1 ELSE IF n < 100 THEN 2 ELSE IF n < 1000 THEN 3 ELSE 4

\* header.length: the lines above, then "Offsets: <start>-<end>\n"
headerLength(ctx, endOffset) ==
  ctx.header + 9 + Digits(ctx.start_offset) + 1 + Digits(endOffset) + 1

RECURSIVE buildContextFrom(_, _, _, _, _, _)
buildContextFrom(contexts, maxChars, i, used, truncated, allowedChunkIds) ==
  IF i > Len(contexts)
    THEN [contextTruncated |-> truncated, allowedChunkIds |-> allowedChunkIds]
  ELSE
    LET ctx == contexts[i]
        header == headerLength(ctx, ctx.end_offset)
        remaining == maxChars - used
    IN  IF remaining <= 0 \/ header + 20 > remaining
          THEN [contextTruncated |-> TRUE, allowedChunkIds |-> allowedChunkIds]
        ELSE
          LET budgetForBody == Max(0, remaining - header - 2)
              cut == ctx.body > budgetForBody
              body == IF cut THEN budgetForBody ELSE ctx.body
              effectiveEndOffset == IF cut THEN ctx.start_offset + body ELSE ctx.end_offset
              finalHeader == headerLength(ctx, effectiveEndOffset)
          IN  buildContextFrom(contexts, maxChars, i + 1, used + finalHeader + body + 2,
                               truncated \/ cut, Append(allowedChunkIds, ctx.id))

buildContextString(env, contexts) ==
  buildContextFrom(contexts, env.RAG_MAX_CONTEXT_CHARS, 1, 0, FALSE, <<>>)

Range(seq) == {seq[i] : i \in DOMAIN seq}

\* ragJsonAnswerSchema.safeParse(parsed).success
ragJsonAnswerSchema(parsed) ==
  /\ parsed.schema
  /\ \A i \in DOMAIN parsed.claims :
       /\ parsed.claims[i].text # ""
       /\ Len(parsed.claims[i].supporting_chunk_ids) >= 1
  /\ IF parsed.unknown
       THEN parsed.claims = <<>> /\ parsed.reason # ""
       ELSE parsed.claims # <<>>

UNKNOWN_ANSWER_reason == "Kontext deckt die Frage nicht ausreichend ab."
UNKNOWN_MESSAGES_off_topic == "Dazu kann ich Ihnen leider nicht weiterhelfen."
UNKNOWN_MESSAGES_insufficient_context == "Dazu kann ich Ihnen leider keine Auskunft geben."

Rejected(reason) == [ok |-> FALSE, reason |-> reason, claims |-> <<>>]

validateAndGateJsonAnswer_NoWhitelist(file, raw, allowedChunkIds) ==
  LET legacy == file = "chat.service.ts"
  IN  IF ~raw.json
        THEN Rejected(IF legacy THEN "Ungueltiges JSON vom Modell."
                      ELSE UNKNOWN_MESSAGES_off_topic)
      ELSE IF ~ragJsonAnswerSchema(raw)
        THEN Rejected(IF legacy THEN "Antwortschema ungueltig."
                      ELSE UNKNOWN_MESSAGES_off_topic)
      ELSE IF raw.unknown
        THEN Rejected(IF raw.reason # "" THEN raw.reason ELSE UNKNOWN_ANSWER_reason)
      ELSE IF \E i \in DOMAIN raw.claims : Len(raw.claims[i].supporting_chunk_ids) = 0
        THEN Rejected(IF legacy THEN "Claim ohne supporting_chunk_ids."
                      ELSE UNKNOWN_MESSAGES_off_topic)
      ELSE [ok |-> TRUE, reason |-> "", claims |-> raw.claims]

validateAndGateJsonAnswer(file, raw, allowedChunkIds) ==
  LET legacy == file = "chat.service.ts"
  IN  IF ~raw.json
        THEN Rejected(IF legacy THEN "Ungueltiges JSON vom Modell."
                      ELSE UNKNOWN_MESSAGES_off_topic)
      ELSE IF ~ragJsonAnswerSchema(raw)
        THEN Rejected(IF legacy THEN "Antwortschema ungueltig."
                      ELSE UNKNOWN_MESSAGES_off_topic)
      ELSE IF raw.unknown
        THEN Rejected(IF raw.reason # "" THEN raw.reason ELSE UNKNOWN_ANSWER_reason)
      ELSE IF \E i \in DOMAIN raw.claims : Len(raw.claims[i].supporting_chunk_ids) = 0
        THEN Rejected(IF legacy THEN "Claim ohne supporting_chunk_ids."
                      ELSE UNKNOWN_MESSAGES_off_topic)
      ELSE IF \E i \in DOMAIN raw.claims :
                \E id \in Range(raw.claims[i].supporting_chunk_ids) :
                  id \notin allowedChunkIds
        THEN Rejected(IF legacy THEN "Claim referenziert nicht erlaubte Chunk-IDs."
                      ELSE UNKNOWN_MESSAGES_off_topic)
      ELSE [ok |-> TRUE, reason |-> "", claims |-> raw.claims]

applyHardGate_AlwaysAllowed(file, env, hydrated) ==
  [allowed |-> TRUE, reason |-> ""]

applyHardGate(file, env, hydrated) ==
  IF hydrated < env.RAG_MIN_HYDRATED_CHUNKS
    THEN [allowed |-> FALSE,
          reason |-> IF file = "chat.service.ts" THEN "Nicht genug Kontext."
                     ELSE UNKNOWN_MESSAGES_insufficient_context]
    ELSE [allowed |-> TRUE, reason |-> ""]

\* new Set(args.claims.flatMap((c) => c.supporting_chunk_ids))
referenced(claims) ==
  UNION {Range(claims[i].supporting_chunk_ids) : i \in DOMAIN claims}

\* the chunk ids of the sources built
buildSourcesFromClaims(hydratedContexts, claims) ==
  referenced(claims) \cap {hydratedContexts[i].id : i \in DOMAIN hydratedContexts}

buildUnknownResponse(reason, contextTruncated) ==
  [claims |-> <<>>, unknown |-> TRUE, reason |-> reason,
   context_truncated |-> contextTruncated, sources |-> {}]

buildVerifiedResponse(file, env, contextTruncated, hydratedContexts, claims) ==
  LET legacy == file = "chat.service.ts"
      built == buildSourcesFromClaims(hydratedContexts, claims)
  IN  IF Len(claims) < env.RAG_MIN_SUPPORTED_CLAIMS
        THEN buildUnknownResponse(IF legacy THEN "Nicht genug belegbare Aussagen."
                                  ELSE UNKNOWN_MESSAGES_insufficient_context,
                                  contextTruncated)
      ELSE IF Cardinality(built) # Cardinality(referenced(claims))
        THEN buildUnknownResponse(IF legacy
                                    THEN "Antwort referenziert nicht aufloesbare Chunks."
                                    ELSE UNKNOWN_MESSAGES_off_topic,
                                  contextTruncated)
      ELSE [claims |-> claims, unknown |-> FALSE, reason |-> "",
            context_truncated |-> contextTruncated, sources |-> built]

\* buildClarificationResponse() and the small-talk reply of part_002
FriendlyResponse(text) ==
  [claims |-> <<Claim(text, <<>>)>>, unknown |-> FALSE, reason |-> "",
   context_truncated |-> FALSE, sources |-> {}]

\* the reply of part_002 when the hard gate trips
OffTopicResponse ==
  [claims |-> <<Claim("naturalResponse", <<>>)>>, unknown |-> TRUE, reason |-> "off_topic",
   context_truncated |-> FALSE, sources |-> {}]

detectClarificationNeeded(content) == content = "?"
detectSmallTalk(content) == content = "hallo"

\* messageService.logMessage(session.id, role, content): the row created
logMessage(role, content) == [role |-> role, content |-> content]

\* JSON.stringify(result): the text of the response, told apart from the response
stringify(result) == [json |-> result]

\* A return that skips the logging of the assistant message.
Returned_NotLogged(c, result) ==
  [c EXCEPT !.pc = "returned", !.result = result]

\* return result, after messageService.logMessage(session.id, "assistant", JSON.stringify(result))
Returned(c, result) ==
  [c EXCEPT !.pc = "returned", !.result = result,
            !.messages = Append(c.messages, logMessage("assistant", stringify(result)))]

otherVars == <<ingestionVars, memory, pinecone, call, applied>>

\* handleMessage up to the call of retrieveCandidates
handleMessage(file, env, index, content) ==
  /\ chat.pc = "idle"
  /\ LET c == [chat EXCEPT !.file = file, !.env = env, !.index = index]
         logged == [c EXCEPT !.messages = <<logMessage("user", content)>>]
     IN  chat' =
           IF content = " "
             THEN [c EXCEPT !.pc = "thrown"]
           ELSE IF file = "part_002" /\ detectClarificationNeeded(content)
             THEN Returned(logged, FriendlyResponse("Wie kann ich Ihnen helfen?"))
           ELSE IF file = "part_002" /\ detectSmallTalk(content)
             THEN Returned(logged, FriendlyResponse("Hallo!"))
           ELSE [logged EXCEPT !.pc = "rewriteQuery"]
  /\ UNCHANGED otherVars

\* rewriteQuery, then embed and the locals of retrieveCandidates
rewriteQuery(reply) ==
  /\ chat.pc = "rewriteQuery"
  /\ chat' =
       IF ~chat.env.RAG_ENABLE_QUERY_REWRITE
         THEN [chat EXCEPT !.pc = "similaritySearch", !.query = "question",
                           !.topK = initialTopK]
       ELSE IF reply = "throws"
         THEN [chat EXCEPT !.pc = "thrown", !.rewriteCalls = 1]
       ELSE [chat EXCEPT !.pc = "similaritySearch", !.rewriteCalls = 1,
                         !.query = IF reply = "ab" THEN "question" ELSE reply,
                         !.topK = initialTopK]
  /\ UNCHANGED otherVars

\* A doubling without the ceiling.
nextTopK_Uncapped(topK) == topK * 2

\* topK = Math.min(maxTopK, topK * 2)
nextTopK(topK) == Min(maxTopK, topK * 2)

\* one pass of the while (true) loop of retrieveCandidates
retrieveCandidates ==
  /\ chat.pc = "similaritySearch"
  /\ LET topK == chat.topK
         raw == rawMatches(chat.index, topK)
         hydrated == hydrateMatches(chat.index, topK)
         topScore == IF hydrated = <<>> THEN 0 ELSE hydrated[1].score
         relevance == normalizeRelevance(chat.env.VECTOR_DB_PROVIDER, topScore)
         c == [chat EXCEPT !.searches = chat.searches + 1]
         again == [c EXCEPT !.topK = nextTopK(topK)]
     IN  chat' =
           IF Len(hydrated) = 0 /\ raw > 0 /\ topK < maxTopK
             THEN again
           ELSE IF relevance < chat.env.RAG_MIN_RELEVANCE
             THEN [c EXCEPT !.pc = "rerank", !.vectorMatches = <<>>,
                            !.retrieval = IF raw = 0 THEN "no matches"
                                          ELSE IF hydrated = <<>> THEN "orphans"
                                          ELSE "below the floor"]
           ELSE IF Len(hydrated) < targetHydrated /\ raw = topK /\ topK < maxTopK
             THEN again
           ELSE IF raw > 0 /\ Len(hydrated) = 0
             THEN IF chat.file = "chat.service.ts"
                    THEN [c EXCEPT !.pc = "thrown", !.retrieval = "orphans"]
                    ELSE [c EXCEPT !.pc = "rerank", !.vectorMatches = <<>>,
                                   !.retrieval = "orphans"]
           ELSE [c EXCEPT !.pc = "rerank", !.vectorMatches = hydrated,
                          !.retrieval = IF raw = 0 THEN "no matches" ELSE "hydrated"]
  /\ UNCHANGED otherVars

\* const reranked = await this.rerank(...); const topContexts = reranked.slice(0, 5)
rerankStep(reply) ==
  /\ chat.pc = "rerank"
  /\ LET docs == chat.vectorMatches
         reranked == rerank(docs, reply)
         c == [chat EXCEPT !.reranked = TRUE]
     IN  chat' =
           IF docs = <<>>
             THEN [c EXCEPT !.pc = "applyHardGate", !.topContexts = <<>>]
           ELSE IF reply.throws
             THEN [chat EXCEPT !.pc = "thrown", !.rerankCalls = 1]
           ELSE [c EXCEPT !.pc = "applyHardGate", !.rerankCalls = 1,
                          !.topContexts = SubSeq(reranked, 1, Min(Len(reranked), TopContexts))]
  /\ UNCHANGED otherVars

\* the hard gate of handleMessage and, when it lets the request pass, buildContextString
hardGateStep ==
  /\ chat.pc = "applyHardGate"
  /\ LET hardGate == applyHardGate(chat.file, chat.env, Len(chat.topContexts))
         built == buildContextString(chat.env, chat.topContexts)
     IN  chat' =
           IF chat.topContexts = <<>> \/ ~hardGate.allowed
             THEN IF chat.file = "chat.service.ts"
                    THEN Returned(chat, buildUnknownResponse(
                                          IF hardGate.reason # "" THEN hardGate.reason
                                          ELSE UNKNOWN_ANSWER_reason, FALSE))
                    ELSE Returned([chat EXCEPT !.offTopicCalls = 1], OffTopicResponse)
           ELSE [chat EXCEPT !.pc = "invoke",
                             !.contextTruncated = built.contextTruncated,
                             !.allowedChunkIds = built.allowedChunkIds]
  /\ UNCHANGED otherVars

\* chatModel.invoke(messages) and the rest of handleMessage
invokeStep(raw) ==
  /\ chat.pc = "invoke"
  /\ LET c == [chat EXCEPT !.answerCalls = 1, !.raw = raw]
         validated == validateAndGateJsonAnswer(chat.file, raw, Range(chat.allowedChunkIds))
     IN  chat' =
           IF raw.throws
             THEN [c EXCEPT !.pc = "thrown"]
           ELSE IF validated.ok
             THEN Returned(c, buildVerifiedResponse(chat.file, chat.env, chat.contextTruncated,
                                                    chat.topContexts, validated.claims))
           ELSE Returned(c, buildUnknownResponse(validated.reason, chat.contextTruncated))
  /\ UNCHANGED otherVars

\* ------------------------------------------------ canonicalize.ts on texts
\* A text is a sequence of characters.  The characters told apart are a
\* letter, the hyphen, the ligature U+FB01 and the letters it is replaced
\* by, space, tab, line feed, carriage return, U+00A0 and U+0000.
Chars == {"a", "-", "fi", "SP", "TAB", "LF", "CR", "NBSP", "NUL"}
MaxTextLen == 5

\* \p{L}
isLetter(c) == c \in {"a", "f", "i", "fi"}

\* text.replace(/\r\n/g, "\n")
RECURSIVE replaceCrLf(_)
replaceCrLf(t) ==
  IF t = <<>> THEN <<>>
  ELSE IF Len(t) >= 2 /\ t[1] = "CR" /\ t[2] = "LF"
    THEN <<"LF">> \o replaceCrLf(SubSeq(t, 3, Len(t)))
  ELSE <<t[1]>> \o replaceCrLf(Tail(t))

\* a replace of single characters: by another character, or by nothing
RECURSIVE replaceChar(_, _, _)
replaceChar(t, from, to) ==
  IF t = <<>> THEN <<>>
  ELSE (IF t[1] = from THEN to ELSE <<t[1]>>) \o replaceChar(Tail(t), from, to)

\* text.replace(/(\p{L})-\n(\p{L})/gu, "$1$2"): matches are taken from left
\* to right and do not overlap
RECURSIVE dehyphenate(_)
dehyphenate(t) ==
  IF t = <<>> THEN <<>>
  ELSE IF Len(t) >= 4 /\ isLetter(t[1]) /\ t[2] = "-" /\ t[3] = "LF" /\ isLetter(t[4])
    THEN <<t[1], t[4]>> \o dehyphenate(SubSeq(t, 5, Len(t)))
  ELSE <<t[1]>> \o dehyphenate(Tail(t))

isBlank(c) == c \in {"SP", "TAB"}

\* text.replace(/[ \t]+/g, " ")
RECURSIVE multiSpaces(_)
multiSpaces(t) ==
  IF t = <<>> THEN <<>>
  ELSE IF isBlank(t[1])
    THEN IF Len(t) >= 2 /\ isBlank(t[2]) THEN multiSpaces(Tail(t))
         ELSE <<"SP">> \o multiSpaces(Tail(t))
  ELSE <<t[1]>> \o multiSpaces(Tail(t))

\* the blanks from position 1 on reach the end of the line
RECURSIVE blanksToLineEnd(_)
blanksToLineEnd(t) ==
  \/ t = <<>>
  \/ t[1] = "LF"
  \/ isBlank(t[1]) /\ blanksToLineEnd(Tail(t))

\* text.replace(/[ \t]+$/gm, "")
RECURSIVE trailingSpacePerLine(_)
trailingSpacePerLine(t) ==
  IF t = <<>> THEN <<>>
  ELSE IF isBlank(t[1]) /\ blanksToLineEnd(t) THEN trailingSpacePerLine(Tail(t))
  ELSE <<t[1]>> \o trailingSpacePerLine(Tail(t))

\* text.replace(/\n{3,}/g, "\n\n")
RECURSIVE multiBlankLines(_)
multiBlankLines(t) ==
  IF t = <<>> THEN <<>>
  ELSE IF Len(t) >= 3 /\ t[1] = "LF" /\ t[2] = "LF" /\ t[3] = "LF"
    THEN multiBlankLines(Tail(t))
  ELSE <<t[1]>> \o multiBlankLines(Tail(t))

\* what String.prototype.trim removes
isWhiteSpace(c) == c \in {"SP", "TAB", "LF", "CR", "NBSP"}

RECURSIVE trimStart(_)
trimStart(t) ==
  IF t # <<>> /\ isWhiteSpace(t[1]) THEN trimStart(Tail(t)) ELSE t

RECURSIVE trimEnd(_)
trimEnd(t) ==
  IF t # <<>> /\ isWhiteSpace(t[Len(t)]) THEN trimEnd(SubSeq(t, 1, Len(t) - 1)) ELSE t

trim(t) == trimEnd(trimStart(t))

\* canonicalize.ts:18-41
canonicalizeText(raw) ==
  LET lineBreaks == replaceChar(replaceCrLf(raw), "CR", <<"LF">>)
      noControl == replaceChar(replaceChar(replaceChar(lineBreaks, "NBSP", <<"SP">>),
                                           "TAB", <<"SP">>), "NUL", <<>>)
      ligatures == replaceChar(noControl, "fi", <<"f", "i">>)
      joined == dehyphenate(ligatures)
  IN  trim(multiBlankLines(trailingSpacePerLine(multiSpaces(joined))))

\* canonicalizeText(raw) for the text typed so far with one more character
typeChar(c) ==
  /\ IF applied.fn = "canonicalizeText" THEN Len(applied.raw) < MaxTextLen ELSE applied = NoApplication
  /\ LET raw == IF applied.fn = "canonicalizeText" THEN Append(applied.raw, c) ELSE <<c>>
     IN  applied' = [fn |-> "canonicalizeText", raw |-> raw,
                     canonical |-> canonicalizeText(raw)]
  /\ UNCHANGED <<ingestionVars, memory, pinecone, call, chat>>

\* --------------------------------------------------- chunking.ts on texts
\* Texts to chunk are made of words of WordLen letters, spaces and line
\* feeds; the letter at a position depends on the position, so that two
\* slices of a word taken at different offsets differ.
MaxTokens == 4
WordLen == 45
Tokens == {"W", "SP", "LF"}
Letters == <<"a", "b", "c", "d", "e", "f", "g">>

RECURSIVE expand(_, _)
expand(tokens, pos) ==
  IF tokens = <<>> THEN <<>>
  ELSE IF Head(tokens) = "W"
    THEN [i \in 1..WordLen |-> Letters[((pos + i) % Len(Letters)) + 1]]
           \o expand(Tail(tokens), pos + WordLen)
  ELSE <<Head(tokens)>> \o expand(Tail(tokens), pos + 1)

\* text.slice(from, to), with the offsets of the code (from 0, end excluded)
slice(text, from, to) == SubSeq(text, Min(from, Len(text)) + 1, Min(to, Len(text)))

\* text.charCodeAt(index): NaN outside the text
charCodeAt(text, index) == IF index >= 0 /\ index < Len(text) THEN text[index + 1] ELSE "NaN"

\* chunking.ts:62-63
isSkippable(c) == c \in {"SP", "LF", "CR", "TAB"}

NoBoundary == -1

\* window.lastIndexOf(sep), from the index i downwards
RECURSIVE lastIndexOf(_, _, _)
lastIndexOf(window, sep, i) ==
  IF i < 0 THEN -1
  ELSE IF slice(window, i, i + Len(sep)) = sep THEN i
  ELSE lastIndexOf(window, sep, i - 1)

\* chunking.ts:65-77
findLastBoundary(window) ==
  LET at(sep) == lastIndexOf(window, sep, Len(window) - Len(sep))
  IN  IF at(<<"LF", "LF">>) # -1 THEN at(<<"LF", "LF">>) + 2
      ELSE IF at(<<"LF">>) # -1 THEN at(<<"LF">>) + 1
      ELSE IF at(<<"SP">>) # -1 THEN at(<<"SP">>) + 1
      ELSE NoBoundary

\* the two while loops of chunking.ts:42-43
RECURSIVE trimmedStartOf(_, _, _)
trimmedStartOf(text, trimmedStart, trimmedEnd) ==
  IF trimmedStart < trimmedEnd /\ isSkippable(charCodeAt(text, trimmedStart))
    THEN trimmedStartOf(text, trimmedStart + 1, trimmedEnd)
    ELSE trimmedStart

RECURSIVE trimmedEndOf(_, _, _)
trimmedEndOf(text, trimmedStart, trimmedEnd) ==
  IF trimmedEnd > trimmedStart /\ isSkippable(charCodeAt(text, trimmedEnd - 1))
    THEN trimmedEndOf(text, trimmedStart, trimmedEnd - 1)
    ELSE trimmedEnd

hardEndOf_Unclamped(start, chunkSize, len) == start + chunkSize

\* const hardEnd = Math.min(start + chunkSize, len)
hardEndOf(start, chunkSize, len) == Min(start + chunkSize, len)

\* the while (start < len) loop of chunking.ts:25-56; Math.floor(chunkSize * 0.6)
\* is taken exactly
RECURSIVE chunkLoop(_, _, _, _)
chunkLoop(text, chunkSize, chunkOverlap, start) ==
  LET len == Len(text)
  IN  IF start >= len THEN <<>>
      ELSE
        LET hardEnd == hardEndOf(start, chunkSize, len)
            minEnd == Min(len, start + ((chunkSize * 6) \div 10))
            breakAt == findLastBoundary(slice(text, minEnd, hardEnd))
            end == IF hardEnd < len /\ breakAt # NoBoundary THEN minEnd + breakAt ELSE hardEnd
            trimmedStart == trimmedStartOf(text, start, end)
            trimmedEnd == trimmedEndOf(text, trimmedStart, end)
            pushed == IF trimmedEnd > trimmedStart
                        THEN <<[startOffset |-> trimmedStart, endOffset |-> trimmedEnd,
                                text |-> slice(text, trimmedStart, trimmedEnd)]>>
                        ELSE <<>>
            nextStart == Max(0, end - chunkOverlap)
        IN  IF end >= len THEN pushed
            ELSE pushed \o chunkLoop(text, chunkSize, chunkOverlap,
                                     IF nextStart > start THEN nextStart ELSE start + 1)

\* chunking.ts:7-60: the error thrown ("" for none) and the chunks returned
anchoredChunks(text, chunkSize, chunkOverlap) ==
  IF chunkSize < 100
    THEN [throws |-> "chunkSize invalid", chunks |-> <<>>]
  ELSE IF chunkOverlap < 0 \/ chunkOverlap >= chunkSize
    THEN [throws |-> "chunkOverlap invalid", chunks |-> <<>>]
  ELSE IF trim(text) = <<>>
    THEN [throws |-> "canonicalText empty", chunks |-> <<>>]
  ELSE LET produced == chunkLoop(text, chunkSize, chunkOverlap, 0)
       IN  IF produced = <<>>
             THEN [throws |-> "No chunks produced", chunks |-> <<>>]
             ELSE [throws |-> "", chunks |-> produced]

ChunkSizes == {99, 100, 130}
ChunkOverlaps == {0, 30, 99, 130}

\* the text to chunk, one token longer
typeToken(token) ==
  /\ IF applied.fn = "text" THEN Len(applied.tokens) < MaxTokens ELSE applied = NoApplication
  /\ applied' = [fn |-> "text",
                 tokens |-> IF applied.fn = "text" THEN Append(applied.tokens, token)
                            ELSE <<token>>]
  /\ UNCHANGED <<ingestionVars, memory, pinecone, call, chat>>

\* chunkTextWithOffsets(text, { chunkSize, chunkOverlap })
chunkText(chunkSize, chunkOverlap) ==
  /\ applied.fn = "text"
  /\ LET text == expand(applied.tokens, 0)
         returned == anchoredChunks(text, chunkSize, chunkOverlap)
     IN  applied' = [fn |-> "chunkTextWithOffsets", text |-> text, chunkSize |-> chunkSize,
                     chunkOverlap |-> chunkOverlap, throws |-> returned.throws,
                     chunks |-> returned.chunks]
  /\ UNCHANGED <<ingestionVars, memory, pinecone, call, chat>>

\* ------------------------------------------------- chunk-id.ts on page lists
MaxPages == 3
CanonicalPages == [pageNo : {1, 2}, canonicalText : {"A", "B"}]
PageLists == UNION {[1..n -> CanonicalPages] : n \in 1..MaxPages}

\* the orders a list of n pages can be given in
Orders(n) == {f \in [1..n -> 1..n] : \A i, j \in 1..n : f[i] = f[j] => i = j}

\* computePdfSourceRevision on a list of pages and on the same pages in another order
revisePdf(pages, order) ==
  /\ applied = NoApplication
  /\ LET reordered == [i \in 1..Len(pages) |-> pages[order[i]]]
     IN  applied' = [fn |-> "computePdfSourceRevision", pages |-> pages,
                     reordered |-> reordered,
                     revision |-> computePdfSourceRevision(pages),
                     revisionReordered |-> computePdfSourceRevision(reordered)]
  /\ UNCHANGED <<ingestionVars, memory, pinecone, call, chat>>

\* ----------------------------------------------------------- specifications
\* Two workers race for the TEXT jobs of one source; the vector store is up.
ClaimMaxJobs == 2

NextClaim ==
  \/ EnqueueText(ClaimMaxJobs, {"B", "E"})
  \/ \E w \in Workers :
       \/ ClaimSteps(w) \/ stageTextSource(w) \/ CatchSteps(w)
       \/ DrainSteps(w, 0) \/ FinalizeSteps(w)

SpecClaim == Init /\ [][NextClaim]_vars

\* Two workers drain and finalize one TEXT job while the vector store fails
\* now and then and time passes.
RaceMaxJobs == 1
RaceMaxFailures == 2
RaceMaxTicks == 2

NextRace ==
  \/ EnqueueText(RaceMaxJobs, {"B", "E"})
  \/ Tick(RaceMaxTicks)
  \/ \E w \in Workers :
       \/ ClaimSteps(w) \/ stageTextSource(w) \/ CatchSteps(w)
       \/ DrainSteps(w, RaceMaxFailures) \/ DrainFailureSteps(w)
       \/ FinalizeSteps(w) \/ failStuckJob(w)

SpecRace == Init /\ [][NextRace]_vars

\* Two workers stage re-ingestions of one source with changing content.
StageMaxJobs == 3

NextStage ==
  \/ EnqueueText(StageMaxJobs, {"B", "C"})
  \/ \E w \in Workers :
       \/ ClaimSteps(w) \/ stageTextSource(w)
       \/ DrainSteps(w, 0) \/ FinalizeSteps(w)

SpecStage == Init /\ [][NextStage]_vars

\* One worker: ingestions, re-ingestions and deletions of one source, one
\* after the other, with a vector store that fails now and then.
SeqMaxJobs == 2
SeqMaxFailures == 1
SeqMaxTicks == 1

NextSeq ==
  \/ EnqueueText(SeqMaxJobs, {"A", "B", "E"})
  \/ EnqueueDelete(SeqMaxJobs)
  \/ Tick(SeqMaxTicks)
  \/ ClaimSteps(1) \/ stageTextSource(1) \/ stageDeleteSource(1) \/ CatchSteps(1)
  \/ DrainSteps(1, SeqMaxFailures) \/ DrainFailureSteps(1) \/ FinalizeSteps(1)

SpecSeq == Init /\ [][NextSeq]_vars

\* One worker runs SCRAPE jobs; rows the worker rejects are retried after
\* their backoff.
ScrapeMaxJobs == 2
ScrapeMaxTicks == 1

NextScrape ==
  \/ EnqueueScrape(ScrapeMaxJobs)
  \/ Tick(ScrapeMaxTicks)
  \/ ClaimSteps(1) \/ ScrapeSteps(1) \/ catchJob(1)
  \/ DrainSteps(1, 0) \/ DrainFailureSteps(1) \/ FinalizeSteps(1)

SpecScrape == Init /\ [][NextScrape]_vars

\* One worker that may be killed and restarted, one TEXT job.  The timer
\* keeps firing, every awaited call returns and time passes: weak fairness
\* of the worker's steps and of the clock.  Kills are not fair, and a kill
\* happens only while the clock of the model can still pass the TTL after it.
CrashMaxJobs == 1
CrashMaxCrashes == 2
CrashMaxTicks == 4

WorkerStep(w) ==
  \/ ClaimSteps(w) \/ stageTextSource(w)
  \/ DrainSteps(w, 0) \/ FinalizeSteps(w) \/ failStuckJob(w)

CrashTick == Tick(CrashMaxTicks)

NextCrash ==
  \/ EnqueueText(CrashMaxJobs, {"B"})
  \/ CrashTick
  \/ WorkerStep(1)
  \/ (now + 2 * TickMs <= CrashMaxTicks * TickMs /\ Crash(1, CrashMaxCrashes))

SpecCrash ==
  /\ Init /\ [][NextCrash]_vars
  /\ WF_vars(WorkerStep(1))
  /\ WF_vars(CrashTick)

\* One worker: a source is ingested, deleted and ingested again under the
\* same uri, with a vector store that fails now and then.
DeleteMaxJobs == 3
DeleteMaxFailures == 1
DeleteMaxTicks == 1

NextDelete ==
  \/ EnqueueText(DeleteMaxJobs, {"B", "C"})
  \/ EnqueueDelete(DeleteMaxJobs)
  \/ Tick(DeleteMaxTicks)
  \/ ClaimSteps(1) \/ stageTextSource(1) \/ stageDeleteSource(1)
  \/ DrainSteps(1, DeleteMaxFailures) \/ DrainFailureSteps(1) \/ FinalizeSteps(1)

SpecDelete == Init /\ [][NextDelete]_vars

\* Two chatbots use the vector store, with vector ids of their own choice.
NextVector ==
  \E chatbotId \in Chatbots :
    \/ \E vectorId \in VectorIds, vector \in Embeddings :
         upsertEmbedding(chatbotId, vectorId, vector)
    \/ similaritySearch(chatbotId)
    \/ \E vectorIds \in (SUBSET VectorIds) \ {{}} : deleteByIds(chatbotId, vectorIds)
    \/ deleteByChatbot(chatbotId)

SpecVector == Init /\ [][NextVector]_vars

\* One chat request, for every configuration, index content and model reply.
NextChat ==
  \/ \E file \in ChatFiles, env \in Envs, index \in IndexContents, content \in Messages :
       handleMessage(file, env, index, content)
  \/ \E reply \in RewriteReplies : rewriteQuery(reply)
  \/ retrieveCandidates
  \/ \E reply \in RerankReplies : rerankStep(reply)
  \/ hardGateStep
  \/ \E raw \in Completions : invokeStep(raw)

SpecChat == Init /\ [][NextChat]_vars

\* canonicalizeText on every text of up to MaxTextLen characters.
NextCanon == \E c \in Chars : typeChar(c)

SpecCanon == Init /\ [][NextCanon]_vars

\* chunkTextWithOffsets on every text of up to MaxTokens tokens.
NextChunk ==
  \/ \E token \in Tokens : typeToken(token)
  \/ \E chunkSize \in ChunkSizes, chunkOverlap \in ChunkOverlaps :
       chunkText(chunkSize, chunkOverlap)

SpecChunk == Init /\ [][NextChunk]_vars

\* computePdfSourceRevision on every list of up to MaxPages pages, in every order.
NextRevision == \E pages \in PageLists : \E order \in Orders(Len(pages)) : revisePdf(pages, order)

SpecRevision == Init /\ [][NextRevision]_vars

\* One worker: sources whose ingestion failed or succeeded are deleted.  The
\* vector store is up, the timer keeps firing, every awaited call returns
\* and time passes: weak fairness of the worker's steps and of the clock.
PurgeMaxJobs == 2
PurgeMaxTicks == 3

PurgeStep ==
  \/ ClaimSteps(1) \/ stageTextSource(1) \/ stageDeleteSource(1) \/ CatchSteps(1)
  \/ DrainSteps(1, 0) \/ FinalizeSteps(1) \/ failStuckJob(1)

PurgeTick == Tick(PurgeMaxTicks)

NextPurge ==
  \/ EnqueueText(PurgeMaxJobs, {"B", "E"})
  \/ EnqueueDelete(PurgeMaxJobs)
  \/ PurgeTick
  \/ PurgeStep

SpecPurge ==
  /\ Init /\ [][NextPurge]_vars
  /\ WF_vars(PurgeStep)
  /\ WF_vars(PurgeTick)

\* Two workers that never crash, TEXT jobs, and a vector store whose calls
\* may all fail.  The timers keep firing, every awaited call returns and
\* time passes: weak fairness of each worker's steps and of the clock.  The
\* clock of the model is bounded, so a call fails only while the backoff it
\* starts can still elapse, and the catch block reads Date.now() at the
\* time of the failure.
RetryMaxJobs == 1
RetryMaxFailures == 4
RetryMaxTicks == 4

RetryStep(w) ==
  \/ ClaimSteps(w) \/ stageTextSource(w) \/ CatchSteps(w)
  \/ findOutboxItems(w) \/ claimItem(w) \/ itemSucceeded(w)
  \/ execItem(w, 0)
  \/ (now + backoffMs(INGESTION_MAX_VECTOR_ATTEMPTS - 1) <= RetryMaxTicks * TickMs
        /\ execItem(w, RetryMaxFailures))
  \/ DrainFailureSteps(w) \/ FinalizeSteps(w) \/ failStuckJob(w)

RetryTick ==
  /\ \A w \in Workers : pc[w] # "itemFailed"
  /\ Tick(RetryMaxTicks)

NextRetry ==
  \/ EnqueueText(RetryMaxJobs, {"B", "E"})
  \/ RetryTick
  \/ \E w \in Workers : RetryStep(w)

SpecRetry ==
  /\ Init /\ [][NextRetry]_vars
  /\ \A w \in Workers : WF_vars(RetryStep(w))
  /\ WF_vars(RetryTick)

\* One worker process and its timer: the callbacks of setInterval call
\* tick() while an earlier call may still be awaiting its I/O.  Here the
\* members of Workers are the calls of tick() of that one process, which
\* share the inFlight flag.
TimerMaxJobs == 2
TimerMaxFailures == 1
TimerMaxTicks == 1
TimerMaxSkips == 2

\* tick(): if (this.inFlight) return; this.inFlight = true; then the first
\* statement of the try block
tick_Unguarded(w) ==
  /\ pc[w] = "idle"
  /\ w \notin ticking
  /\ inFlight' = TRUE
  /\ ticking' = ticking \cup {w}
  /\ outbox' = reclaimedOutbox
  /\ Goto(w, "findJob")
  /\ UNCHANGED <<jobs, sources, chunks, now, vectors, faults, skipped>>
  /\ UNCHANGED <<histVars, localVars, serviceVars>>

tick(w) ==
  /\ pc[w] = "idle"
  /\ w \notin ticking
  /\ IF inFlight
     THEN /\ skipped < TimerMaxSkips
          /\ skipped' = skipped + 1
          /\ UNCHANGED <<dbVars, now, vectors, faults, pc, inFlight, ticking>>
     ELSE /\ inFlight' = TRUE
          /\ ticking' = ticking \cup {w}
          /\ outbox' = reclaimedOutbox
          /\ Goto(w, "findJob")
          /\ UNCHANGED <<jobs, sources, chunks, now, vectors, faults, skipped>>
  /\ UNCHANGED <<histVars, localVars, serviceVars>>

\* tick(): finally { this.inFlight = false; }, reached when the try block
\* has run to its end and when the catch block has logged what was thrown
tickFinally(w) ==
  /\ w \in ticking
  /\ pc[w] = "idle"
  /\ inFlight' = FALSE
  /\ ticking' = ticking \ {w}
  /\ UNCHANGED <<dbVars, now, vectors, faults, pc, skipped>>
  /\ UNCHANGED <<histVars, localVars, serviceVars>>

\* the awaited steps of the try block after reclaimStuckOutboxItems
TimerStep(w) ==
  /\ w \in ticking
  /\ \/ findPendingJob(w) \/ claimJob(w) \/ stageTextSource(w) \/ CatchSteps(w)
     \/ DrainSteps(w, TimerMaxFailures) \/ DrainFailureSteps(w) \/ FinalizeSteps(w)

NextTimer ==
  \/ EnqueueText(TimerMaxJobs, {"B", "E"})
  \/ Tick(TimerMaxTicks)
  \/ \E w \in Workers : tick(w) \/ TimerStep(w) \/ tickFinally(w)

SpecTimer == Init /\ [][NextTimer]_vars

\* ------------------------------------------------------------------ claims
\* C1: of the workers that try to claim the same PENDING job, at most one
\* wins the PENDING -> RUNNING update; a worker whose claim updated no row
\* neither stages that job nor runs its catch block: a job has at most one
\* claim that updated a row, at most one staging run, and at most one
\* worker is ever between the claim and the end of the job's staging.
C1_OneWorkerClaimsAJob ==
  \A j \in 1..Len(jobs) :
    /\ Cardinality({h \in claimers : h[1] = j}) <= 1
    /\ Cardinality({h \in stagers : h[1] = j}) <= Cardinality({h \in claimers : h[1] = j})
    /\ Cardinality({w \in Workers :
         /\ pc[w] \in {"stage", "scrapeItem", "scrapeStage", "catchJob", "catchSource"}
         /\ job[w].id = j}) <= Cardinality({h \in claimers : h[1] = j})

\* Two workers went for the same job: one won and staged it, the other lost.
C1_Witness ==
  \E j \in 1..Len(jobs) :
    /\ <<j, 1>> \in claimers /\ <<j, 1>> \in stagers
    /\ j \in lostClaims

\* C2: once a job is SUCCEEDED, every outbox row of that job is SUCCEEDED.
C2_SucceededJobHasOnlySucceededRows ==
  \A j \in 1..Len(jobs) :
    jobs[j].status = "SUCCEEDED" =>
      \A i \in outboxOf(j) : outbox[i].status = "SUCCEEDED"

\* C3: a job's status only moves PENDING -> RUNNING -> terminal, and a
\* terminal status never changes.
C3_JobStatusMonotone ==
  [][\A j \in 1..Len(jobs) :
       \/ jobs'[j].status = jobs[j].status
       \/ jobs[j].status = "PENDING" /\ jobs'[j].status = "RUNNING"
       \/ jobs[j].status = "RUNNING" /\ jobs'[j].status \in TerminalJobStatus]_vars

\* C4: for every kind of job, once the staging of a claimed job has thrown
\* and the catch block has run, the job is FAILED with the error recorded,
\* the job's source (if it has one) is FAILED, and no KnowledgeChunk row and
\* no VectorOutbox row written for that job is left.
C4_FailedStagingLeavesNothing ==
  \A j \in stagingFailed :
    (\A w \in Workers : job[w].id # j) =>
      /\ jobs[j].status = "FAILED" /\ jobs[j].error # ""
      /\ LET sourceId == jobs[j].knowledgeSourceId
         IN  (sourceExists(sourceId) /\ sources[sourceId].lastIngestionJobId = j)
               => sources[sourceId].status = "FAILED"
      /\ outboxOf(j) = {}
      /\ \A c \in DOMAIN chunks : chunks[c].createdByIngestionJobId # j

\* C5: a job that is RUNNING reaches a terminal status, also when the worker
\* is killed in the middle of an attempt on one of the job's outbox rows.
C5_CrashedJobReachesTerminal ==
  \A j \in 1..CrashMaxJobs :
    (Len(jobs) >= j /\ jobs[j].status = "RUNNING")
      ~> (Len(jobs) >= j /\ jobs[j].status \in TerminalJobStatus)

\* C6: no outbox row's attemptCount exceeds INGESTION_MAX_VECTOR_ATTEMPTS.
C6_AttemptCountWithinCeiling ==
  \A i \in 1..Len(outbox) : outbox[i].attemptCount <= INGESTION_MAX_VECTOR_ATTEMPTS

\* The step is the commit of the staging transaction of worker w's TEXT job.
StagingCommit(w) ==
  pc[w] = "stage" /\ job[w].kind = "TEXT" /\ pc'[w] = "findItems"

\* The chunk ids of the rows of ob with the given operation and job.
rowIds(ob, jobId, operation) ==
  {ob[i].chunkId : i \in {k \in 1..Len(ob) : /\ ob[k].ingestionJobId = jobId
                                             /\ ob[k].operation = operation}}

\* The active chunks of a source among the rows ch.
activeIn(ch, sourceId) == {c \in DOMAIN ch : c.source_id = sourceId /\ ~ch[c].deletedAt}

\* The chunk ids that staging derives from a content for a source.
idsOfContent(sourceId, content) ==
  SeqToSet(chunkIdsOf(sourceId, computeSourceRevision(content), NoPage, content))

\* C7: staging a content for a source whose recorded revision is already
\* that content's revision (the same content a second time) creates no
\* KnowledgeChunk row and no DELETE outbox entry, enqueues UPSERT entries of
\* the staging job whose chunk ids are those of an earlier run's UPSERT
\* entries, and leaves the set of active chunks of the source unchanged.
C7_SameContentStagedAgain ==
  [][\A w \in Workers :
       LET j == job[w].id
           sourceId == job[w].knowledgeSourceId
           content == job[w].payload.content
           added == (Len(outbox) + 1)..Len(outbox')
       IN  (/\ StagingCommit(w)
            /\ sources[sourceId].currentRevision = computeSourceRevision(content))
           => /\ DOMAIN chunks' = DOMAIN chunks
              /\ SubSeq(outbox', 1, Len(outbox)) = outbox
              /\ added # {}
              /\ \A i \in added : /\ outbox'[i].operation = "UPSERT"
                                  /\ outbox'[i].ingestionJobId = j
              /\ \E first \in 1..Len(jobs) :
                   /\ first # j
                   /\ rowIds(outbox, first, "UPSERT") = {outbox'[i].chunkId : i \in added}
              /\ activeIn(chunks', sourceId) = activeIn(chunks, sourceId)]_vars

\* Two jobs in a row staged the same content for the same source.
C7_Witness ==
  \E first, second \in 1..Len(jobs) :
    /\ second = first + 1
    /\ jobs[first].kind = "TEXT" /\ jobs[second].kind = "TEXT"
    /\ jobs[first].payload = jobs[second].payload
    /\ rowIds(outbox, first, "UPSERT") # {}
    /\ rowIds(outbox, second, "UPSERT") = rowIds(outbox, first, "UPSERT")

\* C8: staging a source that has active chunks with a content whose revision
\* differs from the recorded one soft-deletes every chunk that was active,
\* enqueues exactly one DELETE entry per chunk that was active and exactly
\* one UPSERT entry per new chunk id, all of the staging job and nothing
\* else, and leaves the source PENDING with the new revision.
C8_RevisionChangeReplacesChunks ==
  [][\A w \in Workers :
       LET j == job[w].id
           sourceId == job[w].knowledgeSourceId
           content == job[w].payload.content
           prior == activeChunks(sourceId)
           ids == idsOfContent(sourceId, content)
           added == (Len(outbox) + 1)..Len(outbox')
           entries(operation, chunkId) ==
             {i \in added : /\ outbox'[i].operation = operation
                            /\ outbox'[i].chunkId = chunkId
                            /\ outbox'[i].ingestionJobId = j}
       IN  (/\ StagingCommit(w)
            /\ prior # {}
            /\ sources[sourceId].currentRevision # computeSourceRevision(content))
           => /\ \A c \in prior : chunks'[c].deletedAt
              /\ \A c \in prior : Cardinality(entries("DELETE", c)) = 1
              /\ \A c \in ids : Cardinality(entries("UPSERT", c)) = 1
              /\ \A i \in added :
                   /\ outbox'[i].ingestionJobId = j
                   /\ outbox'[i].status = "PENDING"
                   /\ \/ outbox'[i].operation = "DELETE" /\ outbox'[i].chunkId \in prior
                      \/ outbox'[i].operation = "UPSERT" /\ outbox'[i].chunkId \in ids
              /\ SubSeq(outbox', 1, Len(outbox)) = outbox
              /\ sources'[sourceId].status = "PENDING"
              /\ sources'[sourceId].currentRevision = computeSourceRevision(content)]_vars

\* A job replaced the active chunks of its source: it owns DELETE entries
\* for chunks that are soft-deleted and UPSERT entries for its own chunks.
C8_Witness ==
  \E j \in 1..Len(jobs) :
    /\ jobs[j].kind = "TEXT"
    /\ rowIds(outbox, j, "DELETE") # {}
    /\ \A c \in rowIds(outbox, j, "DELETE") : c \in DOMAIN chunks /\ chunks[c].deletedAt
    /\ rowIds(outbox, j, "UPSERT") # {}

\* C9: once every outbox row for the chunks of a source is SUCCEEDED, the
\* vector index holds exactly the active chunk ids of the source.
C9_IndexHoldsActiveChunks ==
  \A sourceId \in 1..Len(sources) :
    (\A i \in 1..Len(outbox) :
       outbox[i].chunkId.source_id = sourceId => outbox[i].status = "SUCCEEDED")
    => {v \in vectors : v.source_id = sourceId} = activeChunks(sourceId)

\* C10: when a TEXT job commits its staging after another job of the same
\* source, with different content, was staged while this one was already
\* claimed, the active chunks of the source are exactly the chunks of one of
\* the two contents and currentRevision is the revision of that content.
C10_ConcurrentStagingsLeaveOneContent ==
  [][\A w \in Workers : \A other \in 1..Len(jobs) :
       LET j == job[w].id
           sourceId == job[w].knowledgeSourceId
           mine == job[w].payload.content
           theirs == jobs[other].payload.content
       IN  (StagingCommit(w) /\ <<other, j>> \in overlaps /\ theirs # mine)
           => \E content \in {mine, theirs} :
                /\ activeIn(chunks', sourceId) = idsOfContent(sourceId, content)
                /\ sources'[sourceId].currentRevision = computeSourceRevision(content)]_vars

\* C11: on the step that hard-deletes a KnowledgeSource row, the vector index
\* holds no vector of a chunk of that source, and a DELETE_SOURCE job for the
\* source is SUCCEEDED with every one of its outbox rows SUCCEEDED.
C11_DeletedSourceHasNoVectors ==
  [][\A s \in 1..Len(sources) :
       (sources[s].exists /\ ~sources'[s].exists) =>
         /\ \A v \in vectors : v.source_id # s
         /\ \E j \in 1..Len(jobs) :
              /\ jobs[j].kind = "DELETE_SOURCE"
              /\ jobs[j].payload.knowledgeSourceId = s
              /\ jobs[j].status = "SUCCEEDED"
              /\ \A i \in outboxOf(j) : outbox[i].status = "SUCCEEDED"]_vars

\* C12 as stated: at any time at most one ingestion job is RUNNING.
C12_AtMostOneJobRunning ==
  Cardinality({j \in 1..Len(jobs) : jobs[j].status = "RUNNING"}) <= 1

\* C12, amended: a step that makes a job RUNNING is the claim of one worker
\* that read this job in this tick; the job was PENDING and no older job was,
\* no other job changes its status in that step, and the worker goes on to
\* stage it.  Jobs claimed in earlier ticks may still be RUNNING.
C12_ClaimTakesTheOldestPendingJob ==
  [][\A j \in 1..Len(jobs) :
       (jobs'[j].status = "RUNNING" /\ jobs[j].status # "RUNNING") =>
         /\ jobs[j].status = "PENDING"
         /\ \A k \in 1..(j - 1) : jobs[k].status # "PENDING"
         /\ \A k \in (1..Len(jobs)) \ {j} : jobs'[k].status = jobs[k].status
         /\ \E w \in Workers : /\ pc[w] = "claimJob" /\ job[w].id = j
                               /\ pc'[w] = "stage" /\ job'[w].id = j]_vars

\* A job was claimed while an earlier job was still RUNNING.
C12_Witness ==
  /\ Len(jobs) >= 2
  /\ jobs[1].status = "RUNNING" /\ jobs[2].status = "RUNNING"
  /\ <<1, 1>> \in claimers /\ <<2, 1>> \in claimers

\* C13: no two VectorOutbox rows share (ingestionJobId, operation, chunkId).
C13_OutboxKeyIsUnique ==
  \A i, k \in 1..Len(outbox) :
    (/\ outbox[i].ingestionJobId = outbox[k].ingestionJobId
     /\ outbox[i].operation = outbox[k].operation
     /\ outbox[i].chunkId = outbox[k].chunkId) => i = k

\* A SCRAPE job has staged more chunks than it owns UPSERT rows: it staged a
\* chunk id twice and the second row was skipped.
C13_Witness ==
  /\ pc[1] = "scrapeItem"
  /\ job[1].kind = "SCRAPE"
  /\ scrape[1].stagedChunks >
       Cardinality({i \in outboxOf(job[1].id) : outbox[i].operation = "UPSERT"})

\* C14: an error thrown by the staging of a job is recorded on the job, and
\* the tick goes on: the catch block does not end the tick while outbox rows
\* are due or other jobs are RUNNING, whose drain and finalization this tick
\* still owes.
C14_FailedStagingDoesNotEndTheTick ==
  [][\A w \in Workers :
       /\ (pc[w] = "catchJob" /\ pc'[w] # "catchJob") =>
            /\ jobs'[job[w].id].status = "FAILED"
            /\ jobs'[job[w].id].error = job[w].error
            /\ job[w].error # ""
       /\ (pc[w] \in {"catchJob", "catchSource"} /\ pc'[w] = "idle") =>
            /\ \A i \in 1..Len(outbox) : ~outboxEligible(outbox[i])
            /\ \A k \in 1..Len(jobs) : jobs'[k].status # "RUNNING"]_vars

\* The citation fields of a chunk row are those the retrieval side needs.
validCitation(ch, c) ==
  /\ c.end_offset > c.start_offset
  /\ ch[c].sourceType = "WEB" => ch[c].uri # ""
  /\ ch[c].sourceType = "PDF" => c.page_no # NoPage /\ ch[c].pageNo # NoPage

\* C15: a vector enters the index only for a chunk row that exists and has
\* end offset > start offset, a uri if it is a WEB chunk and a page number
\* if it is a PDF chunk; and no WEB chunk row without uri is ever staged.
C15_OnlyCitableChunksAreUpserted ==
  [][/\ \A v \in vectors' \ vectors : v \in DOMAIN chunks /\ validCitation(chunks, v)
     /\ \A c \in DOMAIN chunks' \ DOMAIN chunks :
          chunks'[c].sourceType = "WEB" => chunks'[c].uri # ""]_vars

\* A PDF chunk without page number was staged, its UPSERT row was attempted
\* and failed without reaching the index; a page without uri failed staging.
C15_Witness ==
  /\ \E i \in 1..Len(outbox) :
       /\ outbox[i].operation = "UPSERT"
       /\ outbox[i].status = "FAILED"
       /\ outbox[i].attemptCount = INGESTION_MAX_VECTOR_ATTEMPTS
       /\ outbox[i].chunkId \in DOMAIN chunks
       /\ chunks[outbox[i].chunkId].sourceType = "PDF"
       /\ chunks[outbox[i].chunkId].pageNo = NoPage
       /\ outbox[i].chunkId \notin vectors
  /\ \E j \in stagingFailed : jobs[j].error = "WEB source requires uri for citations"

\* The vectors a store holds that were upserted for the chatbot.
upsertedFor(store, chatbotId) ==
  {store[k] : k \in {x \in DOMAIN store : store[x].chatbotId = chatbotId}}

\* C16: a call of the vector store made for one chatbot returns only vectors
\* upserted for that chatbot and leaves the vectors upserted for every other
\* chatbot as they were, in the in-memory store and in the namespaced index.
C16_CallsStayInTheirChatbot ==
  [][\A other \in Chatbots \ {call'.chatbotId} :
       /\ upsertedFor(memory', other) = upsertedFor(memory, other)
       /\ upsertedFor(pinecone', other) = upsertedFor(pinecone, other)
       /\ \A m \in call'.memoryMatches \cup call'.pineconeMatches :
            m.chatbotId # other]_vars

\* C17: when fewer than RAG_MIN_HYDRATED_CHUNKS contexts are left after
\* hydration and reranking, the request ends in a response with unknown = true
\* and chatModel.invoke is never called for it.
C17_TooFewContextsAreRefusedUnasked ==
  (chat.reranked /\ Len(chat.topContexts) < chat.env.RAG_MIN_HYDRATED_CHUNKS) =>
    /\ chat.answerCalls = 0
    /\ chat.pc \in {"applyHardGate", "returned"}
    /\ chat.pc = "returned" => chat.result.unknown

C17_Witness ==
  /\ chat.pc = "returned"
  /\ chat.reranked
  /\ chat.topContexts # <<>>
  /\ Len(chat.topContexts) < chat.env.RAG_MIN_HYDRATED_CHUNKS
  /\ chat.result.unknown
  /\ chat.answerCalls = 0

\* the ids a list of claims cites
cited(claims) == referenced(claims)

\* C18: a response with unknown = false cites only ids of the request's
\* allowedChunkIds, and a model answer that cites any id outside them is
\* returned as a refusal without claims.
C18_OnlyAllowedChunkIdsAreReleased ==
  chat.pc = "returned" =>
    /\ ~chat.result.unknown => cited(chat.result.claims) \subseteq Range(chat.allowedChunkIds)
    /\ (chat.answerCalls = 1 /\ ~(cited(chat.raw.claims) \subseteq Range(chat.allowedChunkIds))) =>
         chat.result.unknown /\ chat.result.claims = <<>> /\ chat.result.sources = {}

C18_Witness ==
  /\ chat.pc = "returned"
  /\ chat.answerCalls = 1
  /\ ragJsonAnswerSchema(chat.raw)
  /\ ~chat.raw.unknown
  /\ \E id \in cited(chat.raw.claims) :
       /\ id \notin Range(chat.allowedChunkIds)
       /\ \E i \in DOMAIN chat.topContexts : chat.topContexts[i].id = id
  /\ chat.result.unknown

\* C19: every response with unknown = true that handleMessage returns has a
\* reason, no sources and no claims.
C19_RefusalsCarryNoClaims ==
  (chat.pc = "returned" /\ chat.result.unknown) =>
    /\ chat.result.reason # ""
    /\ chat.result.sources = {}
    /\ chat.result.claims = <<>>

\* C20: a request whose retrieval found no matches, only orphans, or a top
\* relevance below the floor does not end by throwing, and what it returns
\* has unknown = true and a reason.
C20_NoUsableContextIsRefusedNotThrown ==
  chat.retrieval \in {"no matches", "orphans", "below the floor"} =>
    /\ chat.pc # "thrown"
    /\ chat.pc = "returned" => (chat.result.unknown /\ chat.result.reason # "")

\* C21: the step of handleMessage that reranks never ends the request by
\* throwing: it hands on the candidates in the order of the model's ranking
\* or, when the model call fails or its reply holds no usable index, the
\* first candidates in their similarity order.
C21_RerankNeverThrows ==
  [][(chat.pc = "rerank" /\ chat'.pc # "rerank") =>
       LET docs == chat.vectorMatches
       IN  /\ chat'.pc = "applyHardGate"
           /\ \/ chat'.topContexts = SubSeq(docs, 1, Min(Len(docs), TopContexts))
              \/ \E reply \in RerankReplies :
                   /\ ~reply.throws
                   /\ \E i \in DOMAIN reply.ids : reply.ids[i] \in 1..Len(docs)
                   /\ chat'.topContexts =
                        SubSeq(rerank(docs, reply), 1,
                               Min(Len(rerank(docs, reply)), TopContexts))]_vars

\* C22: rewriteQuery never ends the request by throwing: retrieval goes on
\* with the rewritten line or, when rewriting is off, fails or yields fewer
\* than 3 characters, with the original question.
C22_RewriteFallsBackToTheQuestion ==
  [][(chat.pc = "rewriteQuery" /\ chat'.pc # "rewriteQuery") =>
       /\ chat'.pc = "similaritySearch"
       /\ \/ chat'.query = "question"
          \/ chat.env.RAG_ENABLE_QUERY_REWRITE /\ chat'.query = "keywords"]_vars

\* C23: canonicalizeText applied to its own output returns that output, and
\* the output holds no carriage return, no control character and no
\* non-breaking space.
C23_CanonicalizeIsIdempotent ==
  applied.fn = "canonicalizeText" =>
    /\ canonicalizeText(applied.canonical) = applied.canonical
    /\ \A i \in DOMAIN applied.canonical :
         applied.canonical[i] \notin {"CR", "NUL", "NBSP", "TAB"}

\* C24: every chunk returned by chunkTextWithOffsets for valid chunkSize and
\* chunkOverlap lies inside the text, is not empty, is at most chunkSize long
\* and carries the text between its two offsets.
C24_ChunksAreSlicesOfTheText ==
  (applied.fn = "chunkTextWithOffsets" /\ applied.throws = "") =>
    \A i \in DOMAIN applied.chunks :
      LET c == applied.chunks[i]
      IN  /\ 0 <= c.startOffset
          /\ c.startOffset < c.endOffset
          /\ c.endOffset <= Len(applied.text)
          /\ c.endOffset - c.startOffset <= applied.chunkSize
          /\ c.text = slice(applied.text, c.startOffset, c.endOffset)

\* A text of words, spaces and line feeds that canonicalizeText leaves as it is.
isCanonical(text) ==
  /\ text # <<>>
  /\ ~isWhiteSpace(text[1])
  /\ ~isWhiteSpace(text[Len(text)])
  /\ \A i \in 1..(Len(text) - 1) : text[i] = "SP" => ~isWhiteSpace(text[i + 1])
  /\ \A i \in 1..(Len(text) - 2) : ~(text[i] = "LF" /\ text[i + 1] = "LF" /\ text[i + 2] = "LF")

C24_Witness ==
  /\ applied.fn = "chunkTextWithOffsets"
  /\ applied.throws = ""
  /\ applied.chunkOverlap > 0
  /\ isCanonical(applied.text)
  /\ Len(applied.chunks) >= 3
  /\ \E i \in DOMAIN applied.chunks :
       /\ applied.chunks[i].endOffset < Len(applied.text)
       /\ applied.chunks[i].endOffset - applied.chunks[i].startOffset < applied.chunkSize

\* C25: computePdfSourceRevision gives one revision for a list of pages and
\* for the same pages listed in another order.
C25_PdfRevisionIgnoresPageOrder ==
  applied.fn = "computePdfSourceRevision" => applied.revision = applied.revisionReordered

\* C26: when the finalizer changes the status of a RUNNING job that has
\* outbox rows, none of the job's rows is PENDING, RUNNING or FAILED below
\* the attempt ceiling, and the new status is PARTIAL_FAILED if a row is
\* FAILED at the ceiling and SUCCEEDED otherwise.
C26_FinalizerWaitsForTheRows ==
  [][\A w \in Workers :
       (pc[w] \in {"finalizeJob", "failStuckJob"} /\ pc'[w] # pc[w]) =>
         LET j == Head(running[w]).id
             rows == outboxOf(j)
             atCeiling == {i \in rows : /\ outbox[i].status = "FAILED"
                                        /\ outbox[i].attemptCount >= INGESTION_MAX_VECTOR_ATTEMPTS}
         IN  (jobs[j].status = "RUNNING" /\ rows # {} /\ jobs'[j].status # "RUNNING") =>
               /\ \A i \in rows : outbox[i].status \in {"SUCCEEDED", "FAILED"}
               /\ \A i \in rows : outbox[i].status = "FAILED" => i \in atCeiling
               /\ jobs'[j].status = IF atCeiling # {} THEN "PARTIAL_FAILED" ELSE "SUCCEEDED"]_vars

\* C27: after each staging of a source in a sequence of TEXT stagings (for
\* example B, then C, then B again), the active chunks of the source are
\* exactly the chunks derived from the content just staged.
C27_ActiveChunksAreTheLatestContent ==
  [][\A w \in Workers :
       LET sourceId == job[w].knowledgeSourceId
           content == job[w].payload.content
       IN  (/\ StagingCommit(w)
            /\ \A k \in 1..Len(jobs) : jobs[k].kind = "TEXT")
           => activeIn(chunks', sourceId) = idsOfContent(sourceId, content)]_vars

\* C28: an outbox row that is SUCCEEDED keeps that status in every step
\* that leaves the row in the table, whatever the workers and the
\* reclamation of stale rows do.
C28_SucceededRowStaysSucceeded ==
  [][Len(outbox') >= Len(outbox) =>
       \A i \in 1..Len(outbox) :
         outbox[i].status = "SUCCEEDED" => outbox'[i].status = "SUCCEEDED"]_vars

\* Worker w has written job j's terminal status and has yet to write the
\* status of the job's source.
settling(w, j) ==
  \/ pc[w] = "finalizeSource" /\ Head(running[w]).id = j
  \/ pc[w] = "catchSource" /\ job[w].id = j

\* C29: once a job is terminal and the worker that ended it has left that
\* path (finalization, staging failure or the stuck-without-outbox timeout),
\* every source whose last job it is has left PENDING: it is READY if the
\* job SUCCEEDED and FAILED otherwise, and the source of a SUCCEEDED
\* DELETE_SOURCE job is removed.
C29_TerminalJobSettlesItsSources ==
  \A j \in 1..Len(jobs) :
    (jobs[j].status \in TerminalJobStatus /\ \A w \in Workers : ~settling(w, j)) =>
      /\ \A s \in 1..Len(sources) :
           (sources[s].exists /\ sources[s].lastIngestionJobId = j) =>
             sources[s].status = IF jobs[j].status = "SUCCEEDED" THEN "READY" ELSE "FAILED"
      /\ (jobs[j].kind = "DELETE_SOURCE" /\ jobs[j].status = "SUCCEEDED") =>
           ~sourceExists(jobs[j].payload.knowledgeSourceId)

\* Job j is a RUNNING DELETE_SOURCE job for a source without active chunks,
\* with no outbox row of its own, claimed early enough for the clock of the
\* model to pass the TTL afterwards.
emptyDeleteRunning(j) ==
  IF Len(jobs) < j THEN FALSE
  ELSE /\ jobs[j].kind = "DELETE_SOURCE" /\ jobs[j].status = "RUNNING"
       /\ jobs[j].startedAt + OUTBOX_RUNNING_TTL_MS + TickMs <= PurgeMaxTicks * TickMs
       /\ sourceExists(jobs[j].payload.knowledgeSourceId)
       /\ activeChunks(jobs[j].payload.knowledgeSourceId) = {}
       /\ outboxOf(j) = {}

\* Job j is SUCCEEDED and the source it was to delete is removed.
deleteSucceeded(j) ==
  IF Len(jobs) < j THEN FALSE
  ELSE /\ jobs[j].status = "SUCCEEDED"
       /\ ~sourceExists(jobs[j].payload.knowledgeSourceId)

\* C30: a DELETE_SOURCE job that is RUNNING for a source without active
\* chunks eventually finalizes SUCCEEDED and the source row is removed.
C30_EmptySourceIsDeleted ==
  \A j \in 1..PurgeMaxJobs : emptyDeleteRunning(j) ~> deleteSucceeded(j)

\* Job j has been enqueued.
enqueued(j) == Len(jobs) >= j

\* Job j is SUCCEEDED, FAILED or PARTIAL_FAILED.
terminal(j) == IF Len(jobs) < j THEN FALSE ELSE jobs[j].status \in TerminalJobStatus

\* C31: with ticks that keep occurring and workers that do not crash, every
\* enqueued job is eventually SUCCEEDED, FAILED or PARTIAL_FAILED, also when
\* every embedding and vector store call fails.
C31_EveryJobReachesTerminal ==
  \A j \in 1..RetryMaxJobs : enqueued(j) ~> terminal(j)

\* A job ended PARTIAL_FAILED after every call for its row had failed, up
\* to the attempt ceiling.
C31_Witness ==
  \E j \in 1..Len(jobs) :
    /\ jobs[j].status = "PARTIAL_FAILED"
    /\ faults >= INGESTION_MAX_VECTOR_ATTEMPTS
    /\ vectors = {}
    /\ \A i \in outboxOf(j) : /\ outbox[i].status = "FAILED"
                              /\ outbox[i].attemptCount >= INGESTION_MAX_VECTOR_ATTEMPTS

\* C32: the finalizer fails a RUNNING job under the stuck rule only if the
\* job has no outbox row and its startedAt is older than
\* OUTBOX_RUNNING_TTL_MS; a job with at least one outbox row is ended by the
\* count of its rows, never by this rule.
C32_StuckRuleNeedsNoRowsAndTheTTL ==
  [][\A w \in Workers :
       (pc[w] \in {"finalizeJob", "failStuckJob"} /\ pc'[w] # pc[w]) =>
         LET j == Head(running[w]).id
         IN  IF outboxOf(j) = {}
             THEN /\ pc[w] = "failStuckJob"
                  /\ jobs[j].startedAt < now - OUTBOX_RUNNING_TTL_MS
                  /\ jobs'[j].status = "FAILED"
             ELSE pc[w] = "finalizeJob"]_vars

\* C33: whenever a source is READY, the job named by its lastIngestionJobId
\* is SUCCEEDED.
C33_ReadySourceHasSucceededJob ==
  \A s \in 1..Len(sources) :
    (sources[s].exists /\ sources[s].status = "READY") =>
      jobs[sources[s].lastIngestionJobId].status = "SUCCEEDED"

\* C34: the write that ends a failed attempt sets the row's nextAttemptAt
\* to now + min(60000, 1000 * 2^(n-1)) ms, n being the row's attemptCount
\* after that attempt.
C34_BackoffFollowsTheAttemptCount ==
  [][\A w \in Workers :
       (pc[w] = "itemFailed" /\ pc'[w] # pc[w]) =>
         LET id == Head(items[w]).id
             n == outbox[id].attemptCount
         IN  /\ outbox'[id].status = "FAILED"
             /\ outbox'[id].attemptCount = n
             /\ outbox'[id].nextAttemptAt = now + Min(60000, 1000 * Pow2(n - 1))]_vars

\* C35: whenever the answer-generation call has been made, the
\* allowedChunkIds given to it hold at least RAG_MIN_HYDRATED_CHUNKS
\* distinct chunk ids.
C35_AnswerCallHasEnoughAllowedIds ==
  chat.answerCalls >= 1 =>
    Cardinality(Range(chat.allowedChunkIds)) >= chat.env.RAG_MIN_HYDRATED_CHUNKS

\* C36: in every response with unknown = false the chunk ids of the sources
\* are exactly the ids its claims cite, and every claim cites at least one
\* id.
C36_SourcesAreExactlyTheCitedIds ==
  (chat.pc = "returned" /\ ~chat.result.unknown) =>
    /\ chat.result.sources = cited(chat.result.claims)
    /\ \A i \in DOMAIN chat.result.claims :
         Len(chat.result.claims[i].supporting_chunk_ids) >= 1

\* C37: retrieveCandidates starts with topK = 20, doubles it from one
\* similarity search to the next up to the ceiling of 1000, and has issued at
\* most 7 searches when it ends.
C37_RetrievalIsBounded ==
  /\ chat.searches <= 7
  /\ chat.pc = "similaritySearch" =>
       /\ chat.searches <= 6
       /\ chat.topK = Min(1000, 20 * Pow2(chat.searches))
  /\ (chat.pc # "similaritySearch" /\ chat.searches >= 1) =>
       chat.topK = Min(1000, 20 * Pow2(chat.searches - 1))

\* A question whose matches were all orphans, up to the last search the
\* ceiling allows.
C37_Witness ==
  /\ chat.pc # "similaritySearch"
  /\ chat.searches = 7
  /\ chat.topK = 1000
  /\ chat.index.total > 1000

\* C38: a call of handleMessage that has reached retrieval has persisted
\* the user message; a call that returned has persisted, after the user
\* message, exactly one assistant message, which holds the response
\* returned; so a user message stays without an assistant message only in a
\* call that threw.
C38_ReturnedResponseIsPersisted ==
  /\ chat.pc \in {"rewriteQuery", "similaritySearch", "rerank", "applyHardGate", "invoke"} =>
       /\ Len(chat.messages) = 1
       /\ chat.messages[1].role = "user"
  /\ chat.pc = "returned" =>
       /\ Len(chat.messages) = 2
       /\ chat.messages[1].role = "user"
       /\ chat.messages[2] = logMessage("assistant", stringify(chat.result))
  /\ (chat.messages # <<>> /\ \A i \in DOMAIN chat.messages : chat.messages[i].role = "user") =>
       chat.pc # "returned"

\* A verified answer was returned after the answer call, and both messages
\* are in the history.
C38_Witness ==
  /\ chat.pc = "returned"
  /\ chat.answerCalls = 1
  /\ ~chat.result.unknown
  /\ chat.messages = <<logMessage("user", "question"),
                       logMessage("assistant", stringify(chat.result))>>
\* C39: within one worker process ticks never overlap.  At most one call of
\* tick() is past the guard, and every other call is at rest; the flag is
\* set exactly while a call is past the guard, so it is cleared after every
\* tick, a tick in which a step threw included; a call made while the flag
\* is set returns at the guard and changes nothing but the count of such
\* calls.
C39_TicksNeverOverlap ==
  [][ /\ Cardinality(ticking') <= 1
      /\ inFlight' <=> ticking' # {}
      /\ \A w \in Workers \ ticking' :
           /\ pc'[w] = "idle"
           /\ job'[w] = NoJobRead /\ items'[w] = <<>> /\ running'[w] = <<>>
      /\ skipped' # skipped =>
           /\ inFlight
           /\ UNCHANGED <<dbVars, now, vectors, faults, pc, localVars, histVars,
                           serviceVars, inFlight, ticking>>
      /\ \A w \in ticking \ ticking' : ~inFlight' ]_vars

\* a call of tick() is draining the outbox after an earlier tick threw in
\* staging, and calls made meanwhile were turned away
C39_Witness ==
  /\ inFlight
  /\ skipped > 0
  /\ stagingFailed # {}
  /\ \E w \in ticking : pc[w] = "execItem"

\* C40: when a job is terminal, its failedVectors counter is the number of
\* its outbox rows whose status is FAILED, and it is 0 for a SUCCEEDED job.
C40_FailedVectorsCountsFailedRows ==
  \A j \in 1..Len(jobs) :
    jobs[j].status \in {"SUCCEEDED", "PARTIAL_FAILED", "FAILED"} =>
      /\ jobs[j].failedVectors =
           Cardinality({i \in outboxOf(j) : outbox[i].status = "FAILED"})
      /\ jobs[j].status = "SUCCEEDED" => jobs[j].failedVectors = 0

====
